---- MODULE Spec2Model ----
(***************************************************************************)
(* NANO banking assistant: the session / identity-verification state       *)
(* machine of NANOAgent (src/nano/agent.py), the identity tool             *)
(* (src/nano/tools/identity.py), the keyword intent classifier and the     *)
(* chat endpoints (src/app/api/endpoints/chat.py).                         *)
(*                                                                         *)
(* A message is a sequence of whitespace separated words.  The code works  *)
(* on the character string; the model keeps, for every word of the         *)
(* vocabulary, the facts the code's string operations compute on it        *)
(* (lower case form, keywords it contains, whether it is a digit run).     *)
(***************************************************************************)
EXTENDS Integers, Sequences, FiniteSets, TLC

None == "None"

\* ------------------------------------------------------------------------
\* Bounds of the model
\* ------------------------------------------------------------------------
\* the clock stops after MaxTicks steps
MaxTicks == 1

SessionIds == {"s1", "s2"}
\* the session ids create_session hands out in Spec (one conversation)
SpecSessions == {"s1"}
\* the order in which the model hands out the session ids
SessionOrder == [s \in SessionIds |-> IF s = "s1" THEN 1 ELSE 2]
CustomerIds == {"c1", "c2"}
\* the clock advances in steps of this many minutes
ClockSteps == {40}

\* ------------------------------------------------------------------------
\* Program constants
\* ------------------------------------------------------------------------
session_timeout_minutes == 30
\* the literal 3 of "customer.login_attempts >= 3"
LoginAttemptLimit == 3

\* ------------------------------------------------------------------------
\* Customer records (rows of the customers table).  c1 is the customer of
\* the test fixtures; c2 has a security answer that is itself a keyword of
\* the classifier.
\* ------------------------------------------------------------------------
CustomerData ==
    [c \in CustomerIds |->
        IF c = "c1"
        THEN [full_name |-> <<"john", "doe">>, account_number |-> "1234567890",
              security_answer |-> <<"fluffy">>, account_balance |-> 1000,
              account_status |-> "active"]
        ELSE [full_name |-> <<"jane", "smith">>, account_number |-> "2345678901",
              security_answer |-> <<"verify">>, account_balance |-> 2500,
              account_status |-> "active"]]

\* ------------------------------------------------------------------------
\* Words
\* ------------------------------------------------------------------------
\* str.lower() on one word
Lower(w) ==
    CASE w = "What's" -> "what's"
      [] w = "My" -> "my"
      [] w = "John" -> "john"
      [] w = "Doe" -> "doe"
      [] w = "Jane" -> "jane"
      [] w = "Smith" -> "smith"
      [] w = "Invalid" -> "invalid"
      [] w = "User" -> "user"
      [] w = "Fluffy" -> "fluffy"
      [] w = "Hello" -> "hello"
      [] w = "AC2345678901" -> "ac2345678901"
      [] OTHER -> w

LowerSeq(ws) == [i \in 1..Len(ws) |-> Lower(ws[i])]

\* the one-word keywords of the classifier that occur inside a (lower case)
\* word as a substring: "kw in message_lower" for a keyword without a blank
KeywordsIn(lw) ==
    CASE lw = "what's" -> {"what"}
      [] lw = "balance" -> {"balance"}
      [] lw = "recent" -> {"recent"}
      [] lw = "transactions" -> {"transactions"}
      [] lw = "history" -> {"history", "hi"}
      [] lw = "number" -> {"number"}
      [] lw = "verify" -> {"verify"}
      [] lw = "login" -> {"login"}
      [] lw = "hello" -> {"hello"}
      [] lw = "human" -> {"human"}
      [] lw = "money" -> {"money"}
      [] lw = "help" -> {"help"}
      [] lw = "update" -> {"update"}
      [] lw = "email" -> {"email"}
      [] lw = "john@new.com" -> {"new"}
      [] OTHER -> {}

\* a pattern without the word boundaries: six or more digits anywhere in
\* the word
IsDigitRunAnywhere(w) == w \in {"1234567890", "2345678901", "9999999999", "AC2345678901"}

\* a run of six or more digits standing as a word: r'\b\d{6,}\b'
IsDigitRun(w) == w \in {"1234567890", "2345678901", "9999999999"}

\* word.isdigit() and len(word) >= 6
IsDigitWord(w) == w \in {"1234567890", "2345678901", "9999999999"}

\* the e-mail pattern of _analyze_intent
IsEmail(w) == w \in {"john@new.com"}

\* the phone pattern r'\b\d{3}[-.]?\d{3}[-.]?\d{4}\b' (ten digits as a word)
IsPhone(w) == w \in {"1234567890", "2345678901", "9999999999"}

\* "name" in word
ContainsName(lw) == lw \in {"name"}

\* str.isalpha() of a word with ',' and '.' removed
IsAlpha(w) == ~IsDigitWord(w) /\ w \notin {"What's", "john@new.com", "AC2345678901"}

\* ------------------------------------------------------------------------
\* Messages the customers send
\* ------------------------------------------------------------------------
CredentialsMessage(first, last, account) ==
    <<"My", "name", "is", first, last, "and", "my", "account", "number", "is", account>>

Messages ==
    { <<"What's", "my", "balance">>,
      <<"recent", "transactions">>,
      CredentialsMessage("John", "Doe", "1234567890"),
      CredentialsMessage("Jane", "Smith", "2345678901"),
      CredentialsMessage("Invalid", "User", "9999999999"),
      <<"John", "Doe", "1234567890">>,
      <<"fluffy">>,
      <<"verify">>,
      <<"login">>,
      <<"Hello">>,
      <<"speak", "to", "a", "human">> }

\* a reply to "Please provide your full name and account number." that gives
\* both and repeats the request, so that the classifier ranks the request
\* (2 * 0.35) above identity_verification (0.5)
ContextMessages ==
    { CredentialsMessage("Jane", "Smith", "2345678901") \o <<"recent", "transactions">> }

\* the account number first and the name at the end of the message, so that
\* the three words after "name is" are the name and nothing else
AccountFirstMessage(first, last, account) == <<account, "my", "name", "is", first, last>>

AccountFirstMessages ==
    { AccountFirstMessage("John", "Doe", "1234567890"),
      AccountFirstMessage("Jane", "Smith", "2345678901") }

\* ------------------------------------------------------------------------
\* NANOAgent._analyze_intent
\* ------------------------------------------------------------------------
\* "kw in message_lower" for a one-word keyword
HasWord(msg, kw) == \E i \in 1..Len(msg) : kw \in KeywordsIn(Lower(msg[i]))

\* "kw in message_lower" for a keyword of several words
HasPhrase(msg, kw) ==
    \E i \in 1..Len(msg) :
        /\ i + Len(kw) - 1 <= Len(msg)
        /\ \A j \in 1..Len(kw) : Lower(msg[i + j - 1]) = kw[j]

\* sum(1 for kw in keywords if kw in message_lower)
KeywordScore(msg, words, phrases) ==
    Cardinality({kw \in words : HasWord(msg, kw)})
        + Cardinality({kw \in phrases : HasPhrase(msg, kw)})

identity_score(msg) ==
    KeywordScore(msg, {"verify", "identity", "login", "authenticate"},
                 {<<"who", "am", "i">>, <<"my", "name">>})
balance_score(msg) ==
    KeywordScore(msg, {"balance", "money", "funds", "available", "checking", "savings"},
                 {<<"how", "much">>, <<"account", "total">>})
transaction_score(msg) ==
    KeywordScore(msg, {"history", "transactions", "recent", "statements", "spent",
                       "charges", "deposits", "withdrawals", "activity"}, {})
update_score(msg) ==
    KeywordScore(msg, {"update", "change", "modify", "new", "correct"}, {})
contact_score(msg) ==
    KeywordScore(msg, {"address", "phone", "email", "number", "contact"}, {})
file_score(msg) ==
    KeywordScore(msg, {"upload", "document", "file", "statement", "download", "pdf",
                       "attachment", "scan", "image", "photo"}, {})
ocr_score(msg) ==
    KeywordScore(msg, {"read", "extract", "text", "ocr", "analyze", "check", "receipt"}, {})
help_score(msg) ==
    KeywordScore(msg, {"help", "how", "what", "explain", "support", "assist"},
                 {<<"can", "you">>})
escalation_score(msg) ==
    KeywordScore(msg, {"human", "representative", "manager", "escalate", "complain",
                       "supervisor", "agent", "person"}, {<<"speak", "to">>})
greeting_match(msg) ==
    /\ \/ \E kw \in {"hello", "hi", "hey", "greetings"} : HasWord(msg, kw)
       \/ \E kw \in {<<"good", "morning">>, <<"good", "afternoon">>, <<"good", "evening">>} :
              HasPhrase(msg, kw)
    /\ Len(msg) < 10

\* re.findall(account_pattern, message): the digit runs in message order
RECURSIVE account_matches(_)
account_matches(msg) ==
    IF msg = <<>> THEN <<>>
    ELSE IF IsDigitRun(Head(msg)) THEN <<Head(msg)>> \o account_matches(Tail(msg))
    ELSE account_matches(Tail(msg))

\* matches[0] of re.findall for a pattern that matches whole words
WordsOf(msg) == {msg[i] : i \in 1..Len(msg)}

FirstWhere(msg, matching) ==
    IF \E i \in 1..Len(msg) : msg[i] \in matching
    THEN msg[CHOOSE i \in 1..Len(msg) :
                 msg[i] \in matching /\ \A j \in 1..(i - 1) : msg[j] \notin matching]
    ELSE None

\* entities; an absent key is None
Entities(msg) ==
    LET updating == update_score(msg) > 0 \/ contact_score(msg) > 0
        byEmail == updating /\ HasWord(msg, "email")
        byPhone == updating /\ (HasWord(msg, "phone") \/ HasWord(msg, "number"))
        byAddress == updating /\ HasWord(msg, "address")
    IN  [account_number |-> IF account_matches(msg) # <<>> THEN account_matches(msg)[1] ELSE None,
         update_field |-> IF byAddress THEN "address"
                          ELSE IF byPhone THEN "phone"
                          ELSE IF byEmail THEN "email" ELSE None,
         new_email |-> IF byEmail THEN FirstWhere(msg, {w \in WordsOf(msg) : IsEmail(w)}) ELSE None,
         new_phone |-> IF byPhone THEN FirstWhere(msg, {w \in WordsOf(msg) : IsPhone(w)}) ELSE None]

\* count * weight as the float product the code computes, in thousandths of
\* the exact product plus the sign of the rounding error of the double
\* (3 * 0.2 is 0.6000000000000001: 601; 3 * 0.3 is 0.8999999999999999: 899);
\* weight in hundredths
FloatProduct(count, weight) ==
    count * weight * 10
        + (CASE weight = 30 /\ count \in {3, 6, 9} -> -1
             [] weight = 35 /\ count \in {3, 6, 7} -> -1
             [] weight = 40 /\ count \in {3, 6, 7, 12, 14, 17} -> 1
             [] weight = 20 /\ count \in {3, 6, 7} -> 1
             [] OTHER -> 0)

\* the list `intents` in the order the code appends to it; scores as
\* FloatProduct gives them (0.5 is 500)
Cond(b, x) == IF b THEN <<x>> ELSE <<>>
IntentList(msg) ==
    Cond(identity_score(msg) > 0, <<"identity_verification", FloatProduct(identity_score(msg), 30)>>)
    \o Cond(account_matches(msg) # <<>>, <<"identity_verification", 500>>)
    \o Cond(balance_score(msg) > 0, <<"balance_inquiry", FloatProduct(balance_score(msg), 40)>>)
    \o Cond(transaction_score(msg) > 0,
            <<"transaction_history", FloatProduct(transaction_score(msg), 35)>>)
    \o Cond(update_score(msg) > 0 \/ contact_score(msg) > 0,
            <<"update_information", FloatProduct(update_score(msg) + contact_score(msg), 30)>>)
    \o Cond(ocr_score(msg) > 0,
            <<"document_ocr", FloatProduct(file_score(msg) + ocr_score(msg), 40)>>)
    \o Cond(file_score(msg) > 0 /\ ocr_score(msg) = 0,
            <<"file_management", FloatProduct(file_score(msg), 35)>>)
    \o Cond(help_score(msg) > 0, <<"general_support", FloatProduct(help_score(msg), 20)>>)
    \o Cond(escalation_score(msg) > 0, <<"escalation", FloatProduct(escalation_score(msg), 50)>>)
    \o Cond(greeting_match(msg), <<"greeting", 800>>)

\* intents.sort(key=lambda x: x[1], reverse=True): a stable sort, so entries
\* of equal score keep the order in which they were appended
RECURSIVE InsertByScore(_, _)
InsertByScore(sorted, e) ==
    IF sorted = <<>> THEN <<e>>
    ELSE IF Head(sorted)[2] >= e[2] THEN <<Head(sorted)>> \o InsertByScore(Tail(sorted), e)
    ELSE <<e>> \o sorted

RECURSIVE SortIntents(_)
SortIntents(l) ==
    IF l = <<>> THEN <<>>
    ELSE InsertByScore(SortIntents(SubSeq(l, 1, Len(l) - 1)), l[Len(l)])

\* a ranking in which the greeting entry is appended first
all_intents_greeting_first(msg) ==
    SortIntents(SelectSeq(IntentList(msg), LAMBDA e : e[1] = "greeting")
                \o SelectSeq(IntentList(msg), LAMBDA e : e[1] # "greeting"))

all_intents(msg) == SortIntents(IntentList(msg))

primary_intent(msg) ==
    IF all_intents(msg) # <<>> THEN all_intents(msg)[1][1] ELSE "general_inquiry"

\* the dict _analyze_intent returns, for every message of the model
analyze_intent ==
    [msg \in Messages \cup ContextMessages \cup AccountFirstMessages |->
        [primary_intent |-> primary_intent(msg), all_intents |-> all_intents(msg),
         entities |-> Entities(msg)]]


\* ------------------------------------------------------------------------
\* State
\* ------------------------------------------------------------------------
VARIABLES
    now,              \* datetime.utcnow(), in minutes
    active_sessions,  \* NANOAgent.active_sessions of the running agent
    db_sessions,      \* rows of the sessions table, by session_id
    customers,        \* mutable columns of the customers table
    conversations,    \* by session_id: the rows of the conversations table that
                      \* the last processed message of the session added (the
                      \* end of the history; the agent reads its last row only)
    response,         \* the value the last call returned
    call,             \* the last call: operation, session and arguments
    audit,            \* the audit_logs rows the last call added
    inflight,         \* by caller: the verify_customer_identity call it is in
                      \* the middle of, with the customers row its query loaded
    transactions      \* rows of the transactions table, in insertion order

vars == <<now, active_sessions, db_sessions, customers, conversations,
          response, call, audit, inflight, transactions>>

\* a key of active_sessions that is absent
\* callers of the identity tool that run at the same time (worker processes
\* on one database, each with its own ORM session)
Callers == {"w1", "w2"}
NoCall == [pc |-> "idle", customer |-> None, answer |-> <<>>, loaded |-> 0,
           outcome |-> "none"]

NoSession ==
    [present |-> FALSE, created_at |-> 0, customer_id |-> None, is_verified |-> FALSE,
     awaiting_security_answer |-> FALSE, temp_customer_id |-> None,
     temp_name |-> <<>>, temp_account |-> None]

\* a session_id without a row in the sessions table
NoRow ==
    [exists |-> FALSE, customer_id |-> None, is_verified |-> FALSE,
     created_at |-> 0, last_activity |-> 0, status |-> "active"]

\* a response dict; `keys` holds the keys present besides response and
\* session_id, a flag that is absent reads FALSE
BaseResponse ==
    [kind |-> "none", keys |-> {}, requires_verification |-> FALSE, verified |-> FALSE,
     requires_security_question |-> FALSE, verification_failed |-> FALSE,
     requires_new_session |-> FALSE, error |-> FALSE, tools_used |-> <<>>,
     customer_id |-> None, next_intent |-> None, balance |-> -1, fault_text |-> FALSE,
     all_intents |-> <<>>, account_number |-> None]

\* the store calls of the routed operations, any of which can raise while a
\* request is served; NoFault: none does
NoFault == "none"
StoreCalls ==
    {"verify_customer_identity", "query_account_balance", "transaction_history",
     "update_customer_record"}

AuditRow(sid, cid, action, status) ==
    [session_id |-> sid, customer_id |-> cid, action |-> action, status |-> status]

\* ------------------------------------------------------------------------
\* IdentityVerificationTools
\* ------------------------------------------------------------------------
\* full_name.ilike('%' + name + '%') on word sequences
IsInfix(name, full) ==
    \E i \in 0..(Len(full) - Len(name)) :
        \A j \in 1..Len(name) : full[i + j] = name[j]

\* a comparison that accepts whatever is given
verify_security_answer_accepting_any(stored_answer, provided_answer) == TRUE

\* stored_answer.lower().strip() == provided_answer.lower().strip()
verify_security_answer(stored_answer, provided_answer) ==
    LowerSeq(stored_answer) = LowerSeq(provided_answer)

\* the text of the "Too many failed verification attempts" result
TooManyMessage == "too_many_attempts"

\* a failed attempt recorded on every row of the table instead of the
\* matched one
record_failed_attempt_on_all_rows(custs, c) ==
    [d \in CustomerIds |-> [custs[d] EXCEPT !.login_attempts = @ + 1]]

\* customer.login_attempts += 1; self.db.commit()
record_failed_attempt(custs, c) == [custs EXCEPT ![c].login_attempts = @ + 1]

\* verify_customer_identity: the result dict, the tables after the call, the
\* audit rows it adds; security_answer <<>> is None
verify_customer_identity(sid, full_name, account_number, security_answer, custs, dbs, t, fault) ==
    LET found == {c \in CustomerIds :
                     /\ CustomerData[c].account_number = account_number
                     /\ IsInfix(LowerSeq(full_name), LowerSeq(CustomerData[c].full_name))}
        fail(msg, c, q) ==
            [verified |-> FALSE, message |-> msg, requires_security_question |-> q,
             customer_id |-> c]
    IN  IF fault = "verify_customer_identity"
        THEN [result |-> fail("verification_unavailable", None, FALSE), matched |-> None,
              customers |-> custs, db_sessions |-> dbs,
              audit |-> <<AuditRow(sid, None, "identity_verification", "failed")>>]
        ELSE IF found = {}
        THEN [result |-> fail("customer_not_found", None, FALSE), matched |-> None,
              customers |-> custs, db_sessions |-> dbs,
              audit |-> <<AuditRow(sid, None, "identity_verification", "failed")>>]
        ELSE LET c == CHOOSE x \in found : TRUE IN
             IF CustomerData[c].account_status # "active"
             THEN [result |-> fail("account_not_active", None, FALSE), matched |-> c,
                   customers |-> custs, db_sessions |-> dbs,
                   audit |-> <<AuditRow(sid, c, "identity_verification", "failed")>>]
             ELSE IF custs[c].login_attempts >= LoginAttemptLimit
             THEN [result |-> fail(TooManyMessage, None, FALSE), matched |-> c,
                   customers |-> custs, db_sessions |-> dbs,
                   audit |-> <<AuditRow(sid, c, "identity_verification", "failed")>>]
             ELSE IF security_answer = <<>>
             THEN [result |-> fail("security_question", c, TRUE), matched |-> c,
                   customers |-> custs, db_sessions |-> dbs, audit |-> <<>>]
             ELSE IF ~verify_security_answer(CustomerData[c].security_answer, security_answer)
             THEN [result |-> fail("incorrect_answer", None, TRUE), matched |-> c,
                   customers |-> record_failed_attempt(custs, c),
                   db_sessions |-> dbs,
                   audit |-> <<AuditRow(sid, c, "identity_verification", "failed")>>]
             ELSE [result |-> [verified |-> TRUE, message |-> "verified_welcome",
                               requires_security_question |-> FALSE, customer_id |-> c],
                   matched |-> c,
                   customers |-> [custs EXCEPT ![c].login_attempts = 0,
                                               ![c].is_verified = TRUE],
                   db_sessions |->
                       IF dbs[sid].exists
                       THEN [dbs EXCEPT ![sid].customer_id = c, ![sid].is_verified = TRUE,
                                        ![sid].last_activity = t]
                       ELSE dbs,
                   audit |-> <<AuditRow(sid, c, "identity_verification", "success")>>]


\* ------------------------------------------------------------------------
\* DatabaseOperationTools
\* ------------------------------------------------------------------------
\* query_account_balance; fault_text: the message of the result holds
\* str(e) of the exception the store raised
query_account_balance(sid, cid, custs, fault) ==
    IF fault = "query_account_balance"
    THEN [success |-> FALSE, current_balance |-> -1, fault_text |-> TRUE,
          audit |-> <<AuditRow(sid, cid, "query_account_balance", "failed")>>]
    ELSE IF cid \in CustomerIds /\ CustomerData[cid].account_status = "active"
    THEN [success |-> TRUE, current_balance |-> custs[cid].account_balance,
          fault_text |-> FALSE,
          audit |-> <<AuditRow(sid, cid, "query_account_balance", "success")>>]
    ELSE [success |-> FALSE, current_balance |-> -1, fault_text |-> FALSE, audit |-> <<>>]

\* transaction_history
transaction_history(sid, cid, fault) ==
    IF fault = "transaction_history"
    THEN [success |-> FALSE, fault_text |-> TRUE,
          audit |-> <<AuditRow(sid, cid, "transaction_history", "failed")>>]
    ELSE [success |-> TRUE, fault_text |-> FALSE,
          audit |-> <<AuditRow(sid, cid, "transaction_history", "success")>>]

\* update_customer_record with updates = {email: value}; the email column
\* is unique, a duplicate fails the commit and is rolled back
update_customer_record(sid, cid, value, custs, fault) ==
    IF fault = "update_customer_record"
    THEN [success |-> FALSE, customers |-> custs, fault_text |-> TRUE,
          audit |-> <<AuditRow(sid, cid, "update_customer_record", "failed")>>]
    ELSE IF cid \notin CustomerIds
    THEN [success |-> FALSE, customers |-> custs, fault_text |-> FALSE, audit |-> <<>>]
    ELSE IF \E d \in CustomerIds \ {cid} : custs[d].email = value
    THEN [success |-> FALSE, customers |-> custs, fault_text |-> TRUE,
          audit |-> <<AuditRow(sid, cid, "update_customer_record", "failed")>>]
    ELSE [success |-> TRUE, customers |-> [custs EXCEPT ![cid].email = value],
          fault_text |-> FALSE,
          audit |-> <<AuditRow(sid, cid, "update_customer_record", "success")>>]

\* ------------------------------------------------------------------------
\* NANOAgent._handle_identity_verification
\* ------------------------------------------------------------------------
Min(a, b) == IF a <= b THEN a ELSE b

\* message[find("name is") + 7:].split()[:3] without 'and', 'my', 'account',
\* 'number'
NameAfterNameIs(msg) ==
    LET i == CHOOSE k \in 1..(Len(msg) - 1) :
                 /\ Lower(msg[k]) = "name" /\ Lower(msg[k + 1]) = "is"
                 /\ \A j \in 1..(k - 1) : ~(Lower(msg[j]) = "name" /\ Lower(msg[j + 1]) = "is")
        name_part == SubSeq(msg, i + 2, Min(i + 4, Len(msg)))
    IN  SelectSeq(name_part, LAMBDA w : Lower(w) \notin {"and", "my", "account", "number"})

\* the words before the account number that are alphabetic and no filler;
\* the last two of them, when there are two
NameBeforeAccount(msg, account_number) ==
    LET stop == IF \E k \in 1..Len(msg) : msg[k] = account_number
                THEN CHOOSE k \in 1..Len(msg) :
                         msg[k] = account_number /\ \A j \in 1..(k - 1) : msg[j] # account_number
                ELSE Len(msg) + 1
        name_words == SelectSeq(SubSeq(msg, 1, stop - 1),
                          LAMBDA w : IsAlpha(w) /\ Lower(w) \notin
                                        {"my", "name", "is", "and", "account", "number"})
    IN  IF Len(name_words) >= 2
        THEN SubSeq(name_words, Len(name_words) - 1, Len(name_words))
        ELSE <<>>

\* what a handler hands back: the response (or the exception it raised),
\* the session dict and the tables after it ran, the audit rows it added and
\* the verify_customer_identity call it made
\* (tool: which step of the verification called the identity tool, the
\* customer row it found and the message of its result)
NoTool == [step |-> "none", matched |-> None, message |-> "none"]
Tool(step, v) == [step |-> step, matched |-> v.matched, message |-> v.result.message]

\* a handler result whose session dict forgets which customer it belongs to
OutcomeForgettingCustomer(resp, sess, custs, dbs, aud, tool) ==
    [raised |-> FALSE, resp |-> resp, sess |-> [sess EXCEPT !.customer_id = None],
     customers |-> custs, db_sessions |-> dbs, audit |-> aud, tool |-> tool]

Outcome(resp, sess, custs, dbs, aud, tool) ==
    [raised |-> FALSE, resp |-> resp, sess |-> sess, customers |-> custs,
     db_sessions |-> dbs, audit |-> aud, tool |-> tool]

\* an exception path that drops the pending verification data on its way out
RaisedClearingPending(sess, custs, dbs) ==
    [raised |-> TRUE, resp |-> BaseResponse,
     sess |-> [sess EXCEPT !.awaiting_security_answer = FALSE, !.temp_customer_id = None,
                           !.temp_name = <<>>, !.temp_account = None],
     customers |-> custs, db_sessions |-> dbs, audit |-> <<>>, tool |-> NoTool]

Raised(sess, custs, dbs) ==
    [raised |-> TRUE, resp |-> BaseResponse, sess |-> sess, customers |-> custs,
     db_sessions |-> dbs, audit |-> <<>>, tool |-> NoTool]

\* the reset of a session dict that also drops what verification established
ClearPendingAndVerification(sess) ==
    [sess EXCEPT !.awaiting_security_answer = FALSE, !.temp_customer_id = None,
                 !.temp_name = <<>>, !.temp_account = None, !.is_verified = FALSE]

ClearPending(sess) ==
    [sess EXCEPT !.awaiting_security_answer = FALSE, !.temp_customer_id = None,
                 !.temp_name = <<>>, !.temp_account = None]

VerifiedResponse(c) ==
    [BaseResponse EXCEPT !.kind = "verified_welcome", !.keys = {"verified", "customer_id", "tools_used"},
                         !.verified = TRUE, !.customer_id = c,
                         !.tools_used = <<"verify_customer_identity">>]

FailedResponse(kind) ==
    [BaseResponse EXCEPT !.kind = kind, !.keys = {"verification_failed", "tools_used"},
                         !.verification_failed = TRUE,
                         !.tools_used = <<"verify_customer_identity">>]

handle_identity_verification(sid, msg, sess, entities, custs, dbs, t, fault) ==
    LET words_bound == entities.account_number = None
        account_number == IF entities.account_number # None THEN entities.account_number
                          ELSE FirstWhere(msg, {w \in WordsOf(msg) : IsDigitWord(w)})
        name_is == HasPhrase(msg, <<"name", "is">>)
        full_name == IF name_is THEN NameAfterNameIs(msg)
                     ELSE IF account_number # None THEN NameBeforeAccount(msg, account_number)
                     ELSE <<>>
    IN  \* `words` is assigned only in the fallback extraction
        IF ~name_is /\ account_number # None /\ ~words_bound
        THEN Raised(sess, custs, dbs)
        ELSE IF full_name # <<>> /\ account_number # None
        THEN LET v == verify_customer_identity(sid, full_name, account_number, <<>>,
                                                custs, dbs, t, fault)
             IN  IF v.result.verified
                 THEN Outcome(VerifiedResponse(v.result.customer_id),
                              [sess EXCEPT !.is_verified = TRUE,
                                           !.customer_id = v.result.customer_id],
                              v.customers, v.db_sessions, v.audit, Tool("lookup", v))
                 ELSE IF v.result.requires_security_question
                 THEN Outcome([BaseResponse EXCEPT
                                   !.kind = v.result.message,
                                   !.keys = {"requires_security_question", "customer_id",
                                             "tools_used"},
                                   !.requires_security_question = TRUE,
                                   !.customer_id = v.result.customer_id,
                                   !.tools_used = <<"verify_customer_identity">>],
                              [sess EXCEPT !.awaiting_security_answer = TRUE,
                                           !.temp_customer_id = v.result.customer_id,
                                           !.temp_name = full_name,
                                           !.temp_account = account_number],
                              v.customers, v.db_sessions, v.audit, Tool("lookup", v))
                 ELSE Outcome(FailedResponse(v.result.message), sess,
                              v.customers, v.db_sessions, v.audit, Tool("lookup", v))
        ELSE IF sess.awaiting_security_answer /\ sess.temp_customer_id # None
        THEN LET v == verify_customer_identity(sid, sess.temp_name, sess.temp_account, msg,
                                                custs, dbs, t, fault)
             IN  IF v.result.verified
                 THEN Outcome(VerifiedResponse(v.result.customer_id),
                              [ClearPending(sess) EXCEPT !.is_verified = TRUE,
                                                         !.customer_id = v.result.customer_id],
                              v.customers, v.db_sessions, v.audit, Tool("answer", v))
                 ELSE Outcome(FailedResponse(v.result.message),
                              IF v.result.message = TooManyMessage
                              THEN ClearPending(sess) ELSE sess,
                              v.customers, v.db_sessions, v.audit, Tool("answer", v))
        ELSE Outcome([BaseResponse EXCEPT !.kind = "need_name_and_account",
                                          !.keys = {"requires_verification"},
                                          !.requires_verification = TRUE],
                     sess, custs, dbs, <<>>, NoTool)


\* ------------------------------------------------------------------------
\* NANOAgent._handle_verified_request
\* ------------------------------------------------------------------------
handle_verified_request(sid, msg, intent, customer_id, sess, entities, custs, dbs, fault) ==
    LET reply(kind, tools) ==
            [BaseResponse EXCEPT !.kind = kind, !.keys = {"customer_id", "tools_used"},
                                 !.customer_id = customer_id, !.tools_used = tools]
    IN  IF intent = "balance_inquiry"
        THEN LET r == query_account_balance(sid, customer_id, custs, fault)
             IN  Outcome([reply(IF r.success THEN "balance" ELSE "balance_unavailable",
                                <<"query_account_balance">>)
                             EXCEPT !.balance = r.current_balance,
                                    !.fault_text = r.fault_text],
                         sess, custs, dbs, r.audit, NoTool)
        ELSE IF intent = "transaction_history"
        THEN LET r == transaction_history(sid, customer_id, fault)
             IN  Outcome(reply(IF r.success THEN "transactions" ELSE "no_transactions",
                               <<"transaction_history">>),
                         sess, custs, dbs, r.audit, NoTool)
        ELSE IF intent = "update_information"
        THEN IF /\ entities.update_field # None
                /\ (entities.new_email # None \/ entities.new_phone # None)
                /\ entities.update_field = "email" /\ entities.new_email # None
             THEN LET r == update_customer_record(sid, customer_id, entities.new_email, custs,
                                                  fault)
                  IN  Outcome([reply(IF r.success THEN "updated" ELSE "update_failed",
                                     <<"update_customer_record">>)
                                  EXCEPT !.fault_text = r.fault_text],
                              sess, r.customers, dbs, r.audit, NoTool)
             ELSE IF /\ entities.update_field = "phone" /\ entities.new_phone # None
             THEN IF fault = "update_customer_record"
                  THEN Outcome([reply("update_failed", <<"update_customer_record">>)
                                   EXCEPT !.fault_text = TRUE],
                               sess, custs, dbs,
                               <<AuditRow(sid, customer_id, "update_customer_record",
                                          "failed")>>,
                               NoTool)
                  ELSE Outcome(reply("updated", <<"update_customer_record">>), sess, custs,
                               dbs,
                               <<AuditRow(sid, customer_id, "update_customer_record",
                                          "success")>>,
                               NoTool)
             ELSE Outcome(reply("update_prompt", <<>>), sess, custs, dbs, <<>>, NoTool)
        ELSE IF intent = "file_management"
        THEN Outcome(reply("file_prompt", <<>>), sess, custs, dbs, <<>>, NoTool)
        ELSE IF intent = "document_ocr"
        THEN Outcome(reply("ocr_prompt", <<>>), sess, custs, dbs, <<>>, NoTool)
        ELSE Outcome(reply("knowledge_base", <<"banking_knowledge_base">>), sess, custs, dbs,
                     <<AuditRow(sid, customer_id, "banking_knowledge_base", "success")>>,
                     NoTool)

\* ------------------------------------------------------------------------
\* NANOAgent._generate_response
\* ------------------------------------------------------------------------
sensitive_intents_without_history ==
    {"balance_inquiry", "update_information", "file_management", "document_ocr"}

sensitive_intents ==
    {"balance_inquiry", "transaction_history", "update_information", "file_management",
     "document_ocr"}

\* "provide your full name and account number" in the text of a response
AsksNameAndAccount(kind) == kind = "verification_required"

\* an override that looks at the assistant turn before the message just
\* saved and takes any reply to a request for name and account as an
\* identity verification attempt
ContextIntentForAnyReply(msg, intent, entities, history) ==
    IF /\ Len(history) >= 2
       /\ history[Len(history) - 1].role = "assistant"
       /\ history[Len(history) - 1].asks_name_and_account
    THEN "identity_verification"
    ELSE intent

\* the intent after the look at the last row of the conversation history
ContextIntent(msg, intent, entities, history) ==
    IF /\ history # <<>>
       /\ history[Len(history)].role = "assistant"
       /\ history[Len(history)].asks_name_and_account
       /\ (entities.account_number # None
             \/ \E i \in 1..Len(msg) : ContainsName(Lower(msg[i])))
    THEN "identity_verification"
    ELSE intent

generate_response(sid, msg, intent0, sess, entities, history, custs, dbs, t, fault) ==
    LET is_verified == sess.is_verified
        customer_id == sess.customer_id
        intent == ContextIntent(msg, intent0, entities, history)
    IN  IF intent = "greeting"
        THEN Outcome([BaseResponse EXCEPT !.kind = "greeting",
                                          !.keys = {"requires_verification"}],
                     sess, custs, dbs, <<>>, NoTool)
        ELSE IF intent = "escalation"
        THEN Outcome([BaseResponse EXCEPT !.kind = "escalated",
                                          !.keys = {"escalation_id", "tools_used"},
                                          !.tools_used = <<"escalate_to_human">>],
                     sess, custs, dbs,
                     <<AuditRow(sid, customer_id, "escalate_to_human", "success")>>,
                     NoTool)
        ELSE IF intent \in sensitive_intents /\ ~is_verified
        THEN Outcome([BaseResponse EXCEPT !.kind = "verification_required",
                                          !.keys = {"requires_verification", "next_intent"},
                                          !.requires_verification = TRUE,
                                          !.next_intent = intent],
                     sess, custs, dbs, <<>>, NoTool)
        ELSE IF intent = "identity_verification"
                  \/ (~is_verified /\ entities.account_number # None)
        THEN handle_identity_verification(sid, msg, sess, entities, custs, dbs, t, fault)
        ELSE IF is_verified /\ customer_id # None
        THEN handle_verified_request(sid, msg, intent, customer_id, sess, entities, custs, dbs,
                                     fault)
        ELSE IF intent = "general_support"
        THEN Outcome([BaseResponse EXCEPT !.kind = "general_support",
                                          !.keys = {"tools_used"},
                                          !.tools_used = <<"banking_knowledge_base">>],
                     sess, custs, dbs,
                     <<AuditRow(sid, customer_id, "banking_knowledge_base", "success")>>,
                     NoTool)
        ELSE Outcome([BaseResponse EXCEPT !.kind = "clarify"], sess, custs, dbs, <<>>,
                     NoTool)


\* ------------------------------------------------------------------------
\* Operations
\* ------------------------------------------------------------------------
Init ==
    /\ now = 0
    /\ active_sessions = [s \in SessionIds |-> NoSession]
    /\ db_sessions = [s \in SessionIds |-> NoRow]
    /\ customers \in {[c \in CustomerIds |->
                           [login_attempts |-> attempts[c], is_verified |-> FALSE,
                            email |-> "on_file",
                            account_balance |-> CustomerData[c].account_balance]] :
                       attempts \in [CustomerIds -> 0..LoginAttemptLimit]}
    /\ conversations = [s \in SessionIds |-> <<>>]
    /\ response = BaseResponse
    /\ call = [op |-> "init", session_id |-> None, message |-> <<>>, customer_id |-> None,
               fault |-> NoFault]
    /\ audit = <<>>
    /\ inflight = [r \in Callers |-> NoCall]
    /\ transactions = <<>>

\* a session dict that takes a caller-supplied customer_id as proof of
\* identity
NewSessionTrustingCustomerId(customer_id, t) ==
    [NoSession EXCEPT !.present = TRUE, !.created_at = t, !.customer_id = customer_id,
                      !.is_verified = (customer_id # None)]

\* the dict create_session stores in active_sessions
NewSession(customer_id, t) ==
    [NoSession EXCEPT !.present = TRUE, !.created_at = t, !.customer_id = customer_id,
                      !.is_verified = FALSE]

\* NANOAgent.create_session; uuid4 gives a session_id never used before
create_session(sid, customer_id) ==
    /\ ~db_sessions[sid].exists
    /\ \A other \in SessionIds : ~db_sessions[other].exists => SessionOrder[sid] <= SessionOrder[other]
    /\ db_sessions' = [db_sessions EXCEPT ![sid] =
                          [exists |-> TRUE, customer_id |-> customer_id, is_verified |-> FALSE,
                           created_at |-> now, last_activity |-> now, status |-> "active"]]
    /\ active_sessions' = [active_sessions EXCEPT ![sid] = NewSession(customer_id, now)]
    /\ audit' = <<AuditRow(sid, customer_id, "create_session", "success")>>
    /\ response' = [BaseResponse EXCEPT !.kind = "session_created"]
    /\ call' = [op |-> "create_session", session_id |-> sid, message |-> <<>>,
                customer_id |-> customer_id, fault |-> NoFault]
    /\ UNCHANGED <<transactions, now, customers, conversations, inflight>>

\* a check under which no session ever times out
is_session_expired_never(sess, t) == FALSE

\* NANOAgent._is_session_expired
is_session_expired(sess, t) == t - sess.created_at > session_timeout_minutes

\* a restored dict that does not read the row's is_verified
RestoredSessionUnverified(row) ==
    [NoSession EXCEPT !.present = TRUE, !.created_at = row.created_at,
                      !.customer_id = row.customer_id]

\* the session dict process_message works on: the entry of active_sessions,
\* or one restored from the row of the sessions table
RestoredSession(row) ==
    [NoSession EXCEPT !.present = TRUE, !.created_at = row.created_at,
                      !.customer_id = row.customer_id, !.is_verified = row.is_verified]

\* a row of the conversations table: the role and what the agent reads of
\* the text
UserRow == [role |-> "user", asks_name_and_account |-> FALSE]
AssistantRow(resp) ==
    [role |-> "assistant", asks_name_and_account |-> AsksNameAndAccount(resp.kind)]

\* the tables and the agent's dict process_message reads and writes
State ==
    [now |-> now, active_sessions |-> active_sessions, db_sessions |-> db_sessions,
     customers |-> customers, conversations |-> conversations, fault |-> NoFault]

\* NANOAgent.process_message as a function of the state it runs in: the
\* state it leaves, the response it returns and the audit rows it adds
ProcessMessage(st, sid, msg, customer_id) ==
    LET held == st.active_sessions[sid].present
        row == st.db_sessions[sid]
        sess == IF held THEN st.active_sessions[sid] ELSE RestoredSession(row)
        dbs1 == IF row.exists THEN [st.db_sessions EXCEPT ![sid].last_activity = st.now]
                ELSE st.db_sessions
        analysis == analyze_intent[msg]
        after(as, dbs, custs, convs, resp, aud) ==
            [now |-> st.now, active_sessions |-> as, db_sessions |-> dbs,
             customers |-> custs, conversations |-> convs, fault |-> st.fault,
             response |-> resp, audit |-> aud]
    IN  IF ~held /\ ~(row.exists /\ row.status = "active")
        THEN after(st.active_sessions, st.db_sessions, st.customers, st.conversations,
                   [BaseResponse EXCEPT !.kind = "session_expired",
                                        !.keys = {"requires_new_session"},
                                        !.requires_new_session = TRUE],
                   <<>>)
        ELSE IF is_session_expired(sess, st.now)
        THEN after([st.active_sessions EXCEPT ![sid] = sess], st.db_sessions,
                   st.customers, st.conversations,
                   [BaseResponse EXCEPT !.kind = "timed_out",
                                        !.keys = {"requires_new_session"},
                                        !.requires_new_session = TRUE],
                   <<>>)
        ELSE LET out == CHOOSE o \in {generate_response(sid, msg, analysis.primary_intent,
                                          sess, analysis.entities,
                                          st.conversations[sid] \o <<UserRow>>,
                                          st.customers, dbs1, st.now, st.fault)} : TRUE
             IN  IF out.raised
                 THEN after([st.active_sessions EXCEPT ![sid] = out.sess],
                            out.db_sessions, out.customers,
                            [st.conversations EXCEPT ![sid] = <<UserRow>>],
                            [BaseResponse EXCEPT !.kind = "technical_difficulties",
                                                 !.keys = {"error"}, !.error = TRUE],
                            out.audit \o
                            <<AuditRow(sid, customer_id, "process_message", "failed")>>)
                 ELSE after([st.active_sessions EXCEPT ![sid] = out.sess],
                            out.db_sessions, out.customers,
                            [st.conversations EXCEPT ![sid] =
                                <<UserRow, AssistantRow(out.resp)>>],
                            out.resp,
                            out.audit \o
                            <<AuditRow(sid, out.sess.customer_id, "process_message",
                                       "success")>>)

\* NANOAgent.process_message
process_message(sid, msg, customer_id) ==
    \E r \in {ProcessMessage(State, sid, msg, customer_id)} :
        /\ call' = [op |-> "process_message", session_id |-> sid, message |-> msg,
                    customer_id |-> customer_id, fault |-> NoFault]
        /\ active_sessions' = r.active_sessions
        /\ db_sessions' = r.db_sessions
        /\ customers' = r.customers
        /\ conversations' = r.conversations
        /\ response' = r.response
        /\ audit' = r.audit
        /\ UNCHANGED <<transactions, now, inflight>>

\* NANOAgent.process_message for a request during which the store call
\* `fault` of the routed operation raises (NoFault: no call raises)
process_message_during_fault(sid, msg, fault) ==
    \E r \in {ProcessMessage([State EXCEPT !.fault = fault], sid, msg, None)} :
        /\ call' = [op |-> "process_message", session_id |-> sid, message |-> msg,
                    customer_id |-> None, fault |-> fault]
        /\ active_sessions' = r.active_sessions
        /\ db_sessions' = r.db_sessions
        /\ customers' = r.customers
        /\ conversations' = r.conversations
        /\ response' = r.response
        /\ audit' = r.audit
        /\ UNCHANGED <<transactions, now, inflight>>

\* chat_endpoint for a request that names its session: get_nano_agent builds
\* a NANOAgent whose active_sessions is empty, and that agent processes the
\* message
ChatEndpoint(st, sid, msg, customer_id) ==
    ProcessMessage([st EXCEPT !.active_sessions = [s \in SessionIds |-> NoSession]],
                   sid, msg, customer_id)

\* end_session_endpoint
end_session(sid) ==
    /\ db_sessions[sid].exists
    /\ db_sessions[sid].status # "terminated"
    /\ db_sessions' = [db_sessions EXCEPT ![sid].status = "terminated"]
    /\ response' = [BaseResponse EXCEPT !.kind = "session_ended"]
    /\ call' = [op |-> "end_session", session_id |-> sid, message |-> <<>>,
                customer_id |-> None, fault |-> NoFault]
    /\ audit' = <<>>
    /\ UNCHANGED <<transactions, now, active_sessions, customers, conversations, inflight>>

\* NANOAgent.cleanup_expired_sessions
cleanup_expired_sessions ==
    LET cutoff_time == now - session_timeout_minutes
    IN  /\ \E s \in SessionIds :
              \/ active_sessions[s].present /\ active_sessions[s].created_at < cutoff_time
              \/ /\ db_sessions[s].exists /\ db_sessions[s].status = "active"
                 /\ db_sessions[s].last_activity < cutoff_time
        /\ active_sessions' =
               [s \in SessionIds |->
                   IF active_sessions[s].present /\ active_sessions[s].created_at < cutoff_time
                   THEN NoSession ELSE active_sessions[s]]
        /\ db_sessions' =
               [s \in SessionIds |->
                   IF /\ db_sessions[s].exists /\ db_sessions[s].status = "active"
                      /\ db_sessions[s].last_activity < cutoff_time
                   THEN [db_sessions[s] EXCEPT !.status = "expired"]
                   ELSE db_sessions[s]]
        /\ response' = [BaseResponse EXCEPT !.kind = "cleaned_up"]
        /\ call' = [op |-> "cleanup_expired_sessions", session_id |-> None, message |-> <<>>,
                    customer_id |-> None, fault |-> NoFault]
        /\ audit' = <<>>
        /\ UNCHANGED <<transactions, now, customers, conversations, inflight>>

\* get_nano_agent: the endpoints build a new NANOAgent for every request,
\* with an empty active_sessions
new_agent ==
    /\ \E s \in SessionIds : active_sessions[s].present
    /\ active_sessions' = [s \in SessionIds |-> NoSession]
    /\ response' = [BaseResponse EXCEPT !.kind = "agent_created"]
    /\ call' = [op |-> "get_nano_agent", session_id |-> None, message |-> <<>>,
                customer_id |-> None, fault |-> NoFault]
    /\ audit' = <<>>
    /\ UNCHANGED <<transactions, now, db_sessions, customers, conversations, inflight>>

\* time passes
tick ==
    /\ \E d \in ClockSteps : now + d <= MaxTicks * d /\ now' = now + d
    /\ UNCHANGED <<transactions, active_sessions, db_sessions, customers, conversations, response,
                   call, audit, inflight>>

Next ==
    \/ \E sid \in SpecSessions, c \in {None, "c2"} : create_session(sid, c)
    \/ \E sid \in SessionIds, msg \in Messages, c \in {None} : process_message(sid, msg, c)
    \/ \E sid \in SessionIds : end_session(sid)
    \/ cleanup_expired_sessions
    \/ new_agent
    \/ tick

Spec == Init /\ [][Next]_vars

\* ------------------------------------------------------------------------
\* A conversation that goes on while time passes in steps shorter than the
\* timeout
\* ------------------------------------------------------------------------
ShortClockSteps == {20}

MaxShortTicks == 2

ClockMessages == { <<"What's", "my", "balance">>, <<"Hello">> }

short_tick ==
    /\ \E d \in ShortClockSteps : now + d <= MaxShortTicks * d /\ now' = now + d
    /\ UNCHANGED <<transactions, active_sessions, db_sessions, customers, conversations, response,
                   call, audit, inflight>>

NextClock ==
    \/ \E sid \in SpecSessions : create_session(sid, None)
    \/ \E sid \in SpecSessions, msg \in ClockMessages : process_message(sid, msg, None)
    \/ cleanup_expired_sessions
    \/ new_agent
    \/ short_tick

SpecClock == Init /\ [][NextClock]_vars

\* ------------------------------------------------------------------------
\* A conversation during which store calls fail
\* ------------------------------------------------------------------------
FaultMessages ==
    { CredentialsMessage("Jane", "Smith", "2345678901"),
      <<"verify">>,
      <<"What's", "my", "balance">>,
      <<"recent", "transactions">> }

NextFault ==
    \/ \E sid \in SpecSessions : create_session(sid, None)
    \/ \E sid \in SpecSessions, msg \in FaultMessages, fault \in StoreCalls \cup {NoFault} :
           process_message_during_fault(sid, msg, fault)

SpecFault == Init /\ [][NextFault]_vars

\* ------------------------------------------------------------------------
\* The classifier on its own
\* ------------------------------------------------------------------------
MaxWords == 3

Vocabulary ==
    {"Hello", "balance", "money", "verify", "help", "human", "1234567890", "AC2345678901",
     "2345678901"}

ClassifierMessages == UNION {[1..n -> Vocabulary] : n \in 1..MaxWords}

\* a message has arrived and is about to be analysed
InitClassify ==
    /\ now = 0
    /\ active_sessions = [s \in SessionIds |-> NoSession]
    /\ db_sessions = [s \in SessionIds |-> NoRow]
    /\ customers = [c \in CustomerIds |->
                        [login_attempts |-> 0, is_verified |-> FALSE, email |-> "on_file",
                         account_balance |-> CustomerData[c].account_balance]]
    /\ transactions = <<>>
    /\ conversations = [s \in SessionIds |-> <<>>]
    /\ response = BaseResponse
    /\ call \in {[op |-> "message_received", session_id |-> None, message |-> msg,
                   customer_id |-> None, fault |-> NoFault] : msg \in ClassifierMessages}
    /\ audit = <<>>
    /\ inflight = [r \in Callers |-> NoCall]

\* NANOAgent._analyze_intent: response holds the dict it returns
analyze_message(msg) ==
    /\ call.op = "message_received" /\ call.message = msg
    /\ call' = [op |-> "_analyze_intent", session_id |-> None, message |-> msg,
                customer_id |-> None, fault |-> NoFault]
    /\ response' = [BaseResponse EXCEPT !.kind = "intent_analysis",
                                        !.next_intent = primary_intent(msg),
                                        !.all_intents = all_intents(msg),
                                        !.account_number = Entities(msg).account_number]
    /\ audit' = <<>>
    /\ UNCHANGED <<transactions, now, active_sessions, db_sessions, customers, conversations, inflight>>

NextClassify == \E msg \in ClassifierMessages : analyze_message(msg)

SpecClassify == InitClassify /\ [][NextClassify]_vars

\* ------------------------------------------------------------------------
\* DatabaseOperationTools.create_transaction
\* ------------------------------------------------------------------------
Amounts == {500, 1000, 3000}

TransactionTypes == {"credit", "debit", "refund"}

MaxTransactions == 3

\* a check that lets an account be overdrawn by up to 1000
InsufficientFundsBeyondOverdraft(new_balance) == new_balance < -1000

\* new_balance < 0 after a debit
InsufficientFunds(new_balance) == new_balance < 0

create_transaction(sid, cid, amount, transaction_type) ==
    LET known == cid \in CustomerIds /\ CustomerData[cid].account_status = "active"
        new_balance == IF transaction_type = "credit"
                       THEN customers[cid].account_balance + amount
                       ELSE customers[cid].account_balance - amount
        failed(kind) ==
            /\ response' = [BaseResponse EXCEPT !.kind = kind]
            /\ audit' = <<>>
            /\ UNCHANGED <<customers, transactions>>
    IN  /\ Len(transactions) < MaxTransactions
        /\ call' = [op |-> "create_transaction", session_id |-> sid, message |-> <<>>,
                    customer_id |-> cid, fault |-> NoFault]
        /\ IF ~known
           THEN failed("customer_not_found_or_inactive")
           ELSE IF transaction_type = "debit" /\ InsufficientFunds(new_balance)
           THEN failed("insufficient_funds")
           ELSE IF transaction_type \notin {"credit", "debit"}
           THEN failed("invalid_transaction_type")
           ELSE /\ transactions' =
                       Append(transactions,
                              [customer_id |-> cid, amount |-> amount,
                               transaction_type |-> transaction_type,
                               balance_after |-> new_balance, status |-> "completed"])
                /\ customers' = [customers EXCEPT ![cid].account_balance = new_balance]
                /\ response' = [BaseResponse EXCEPT !.kind = "transaction_completed",
                                                    !.balance = new_balance]
                /\ audit' = <<AuditRow(sid, cid, "create_transaction", "success")>>
        /\ UNCHANGED <<now, active_sessions, db_sessions, conversations, inflight>>

NextLedger ==
    \E cid \in CustomerIds \cup {"c9"}, amount \in Amounts, type \in TransactionTypes :
        create_transaction("s1", cid, amount, type)

SpecLedger == Init /\ [][NextLedger]_vars

\* ------------------------------------------------------------------------
\* SimpleNANOAgent (simple_agent.py), the agent chat.py imports when
\* nano.agent cannot be imported
\* ------------------------------------------------------------------------
simple_file_score(msg) ==
    KeywordScore(msg, {"upload", "document", "file", "statement", "download", "pdf",
                       "attachment"}, {})

SimpleIntentList(msg) ==
    Cond(identity_score(msg) > 0, <<"identity_verification", FloatProduct(identity_score(msg), 30)>>)
    \o Cond(account_matches(msg) # <<>>, <<"identity_verification", 500>>)
    \o Cond(balance_score(msg) > 0, <<"balance_inquiry", FloatProduct(balance_score(msg), 40)>>)
    \o Cond(transaction_score(msg) > 0,
            <<"transaction_history", FloatProduct(transaction_score(msg), 35)>>)
    \o Cond(update_score(msg) > 0 \/ contact_score(msg) > 0,
            <<"update_information", FloatProduct(update_score(msg) + contact_score(msg), 30)>>)
    \o Cond(simple_file_score(msg) > 0,
            <<"file_management", FloatProduct(simple_file_score(msg), 35)>>)
    \o Cond(help_score(msg) > 0, <<"general_support", FloatProduct(help_score(msg), 20)>>)
    \o Cond(escalation_score(msg) > 0, <<"escalation", FloatProduct(escalation_score(msg), 50)>>)
    \o Cond(greeting_match(msg), <<"greeting", 800>>)

SimpleMessages ==
    { <<"What's", "my", "balance">>,
      CredentialsMessage("Jane", "Smith", "2345678901"),
      AccountFirstMessage("Jane", "Smith", "2345678901"),
      <<"John", "Doe", "1234567890">>,
      <<"verify">>,
      <<"Hello">> }

\* the dict SimpleNANOAgent._analyze_intent returns
simple_analyze_intent ==
    [msg \in SimpleMessages |->
        [primary_intent |-> IF SimpleIntentList(msg) # <<>>
                            THEN SortIntents(SimpleIntentList(msg))[1][1]
                            ELSE "general_inquiry",
         all_intents |-> SortIntents(SimpleIntentList(msg)),
         entities |-> Entities(msg)]]

\* message[find("name is") + 7:].split()[:3], every word kept
SimpleNameAfterNameIs(msg) ==
    LET i == CHOOSE k \in 1..(Len(msg) - 1) :
                 /\ Lower(msg[k]) = "name" /\ Lower(msg[k + 1]) = "is"
                 /\ \A j \in 1..(k - 1) : ~(Lower(msg[j]) = "name" /\ Lower(msg[j + 1]) = "is")
    IN  SubSeq(msg, i + 2, Min(i + 4, Len(msg)))

\* the alphabetic words before the account number; the last two of them
SimpleNameBeforeAccount(msg, account_number) ==
    LET stop == IF \E k \in 1..Len(msg) : msg[k] = account_number
                THEN CHOOSE k \in 1..Len(msg) :
                         msg[k] = account_number /\ \A j \in 1..(k - 1) : msg[j] # account_number
                ELSE Len(msg) + 1
        name_words == SelectSeq(SubSeq(msg, 1, stop - 1), LAMBDA w : IsAlpha(w))
    IN  IF Len(name_words) >= 2
        THEN SubSeq(name_words, Len(name_words) - 1, Len(name_words))
        ELSE <<>>

\* SimpleNANOAgent._handle_identity_verification: no branch writes the
\* awaiting_security_answer or temp_* keys of the session dict
simple_handle_identity_verification(sid, msg, sess, entities, custs, dbs, t, fault) ==
    LET words_bound == entities.account_number = None
        account_number == IF entities.account_number # None THEN entities.account_number
                          ELSE FirstWhere(msg, {w \in WordsOf(msg) : IsDigitWord(w)})
        name_is == HasPhrase(msg, <<"name", "is">>)
        full_name == IF name_is THEN SimpleNameAfterNameIs(msg)
                     ELSE IF account_number # None
                     THEN SimpleNameBeforeAccount(msg, account_number)
                     ELSE <<>>
    IN  IF ~name_is /\ account_number # None /\ ~words_bound
        THEN Raised(sess, custs, dbs)
        ELSE IF full_name # <<>> /\ account_number # None
        THEN LET v == verify_customer_identity(sid, full_name, account_number, <<>>,
                                                custs, dbs, t, fault)
             IN  IF v.result.verified
                 THEN Outcome(VerifiedResponse(v.result.customer_id),
                              [sess EXCEPT !.is_verified = TRUE,
                                           !.customer_id = v.result.customer_id],
                              v.customers, v.db_sessions, v.audit, Tool("lookup", v))
                 ELSE IF v.result.requires_security_question
                 THEN Outcome([BaseResponse EXCEPT
                                   !.kind = v.result.message,
                                   !.keys = {"requires_security_question", "customer_id",
                                             "tools_used"},
                                   !.requires_security_question = TRUE,
                                   !.customer_id = v.result.customer_id,
                                   !.tools_used = <<"verify_customer_identity">>],
                              sess, v.customers, v.db_sessions, v.audit, Tool("lookup", v))
                 ELSE Outcome(FailedResponse(v.result.message), sess,
                              v.customers, v.db_sessions, v.audit, Tool("lookup", v))
        ELSE IF sess.awaiting_security_answer /\ sess.temp_customer_id # None
        THEN LET v == verify_customer_identity(sid, sess.temp_name, sess.temp_account, msg,
                                                custs, dbs, t, fault)
             IN  IF v.result.verified
                 THEN Outcome(VerifiedResponse(v.result.customer_id),
                              [sess EXCEPT !.is_verified = TRUE,
                                           !.customer_id = v.result.customer_id],
                              v.customers, v.db_sessions, v.audit, Tool("answer", v))
                 ELSE Outcome(FailedResponse(v.result.message), sess,
                              v.customers, v.db_sessions, v.audit, Tool("answer", v))
        ELSE Outcome([BaseResponse EXCEPT !.kind = "need_name_and_account",
                                          !.keys = {"requires_verification"},
                                          !.requires_verification = TRUE],
                     sess, custs, dbs, <<>>, NoTool)

simple_sensitive_intents ==
    {"balance_inquiry", "transaction_history", "update_information", "file_management"}

\* SimpleNANOAgent._generate_response
simple_generate_response(sid, msg, intent0, sess, entities, history, custs, dbs, t, fault) ==
    LET is_verified == sess.is_verified
        customer_id == sess.customer_id
        intent == ContextIntent(msg, intent0, entities, history)
    IN  IF intent = "greeting"
        THEN Outcome([BaseResponse EXCEPT !.kind = "greeting",
                                          !.keys = {"requires_verification"}],
                     sess, custs, dbs, <<>>, NoTool)
        ELSE IF intent = "escalation"
        THEN Outcome([BaseResponse EXCEPT !.kind = "escalated",
                                          !.keys = {"escalation_id", "tools_used"},
                                          !.tools_used = <<"escalate_to_human">>],
                     sess, custs, dbs,
                     <<AuditRow(sid, customer_id, "escalate_to_human", "success")>>,
                     NoTool)
        ELSE IF intent \in simple_sensitive_intents /\ ~is_verified
        THEN Outcome([BaseResponse EXCEPT !.kind = "verification_required",
                                          !.keys = {"requires_verification", "next_intent"},
                                          !.requires_verification = TRUE,
                                          !.next_intent = intent],
                     sess, custs, dbs, <<>>, NoTool)
        ELSE IF intent = "identity_verification"
                  \/ (~is_verified /\ entities.account_number # None)
        THEN simple_handle_identity_verification(sid, msg, sess, entities, custs, dbs, t, fault)
        ELSE IF is_verified /\ customer_id # None
        THEN handle_verified_request(sid, msg, intent, customer_id, sess, entities, custs, dbs,
                                     fault)
        ELSE IF intent = "general_support"
        THEN Outcome([BaseResponse EXCEPT !.kind = "general_support",
                                          !.keys = {"tools_used"},
                                          !.tools_used = <<"banking_knowledge_base">>],
                     sess, custs, dbs,
                     <<AuditRow(sid, customer_id, "banking_knowledge_base", "success")>>,
                     NoTool)
        ELSE Outcome([BaseResponse EXCEPT !.kind = "clarify"], sess, custs, dbs, <<>>,
                     NoTool)

\* SimpleNANOAgent.process_message as a function of the state it runs in
SimpleProcessMessage(st, sid, msg, customer_id) ==
    LET held == st.active_sessions[sid].present
        row == st.db_sessions[sid]
        sess == IF held THEN st.active_sessions[sid] ELSE RestoredSession(row)
        dbs1 == IF row.exists THEN [st.db_sessions EXCEPT ![sid].last_activity = st.now]
                ELSE st.db_sessions
        analysis == simple_analyze_intent[msg]
        after(as, dbs, custs, convs, resp, aud) ==
            [now |-> st.now, active_sessions |-> as, db_sessions |-> dbs,
             customers |-> custs, conversations |-> convs, fault |-> st.fault,
             response |-> resp, audit |-> aud]
    IN  IF ~held /\ ~(row.exists /\ row.status = "active")
        THEN after(st.active_sessions, st.db_sessions, st.customers, st.conversations,
                   [BaseResponse EXCEPT !.kind = "session_expired",
                                        !.keys = {"requires_new_session"},
                                        !.requires_new_session = TRUE],
                   <<>>)
        ELSE IF is_session_expired(sess, st.now)
        THEN after([st.active_sessions EXCEPT ![sid] = sess], st.db_sessions,
                   st.customers, st.conversations,
                   [BaseResponse EXCEPT !.kind = "timed_out",
                                        !.keys = {"requires_new_session"},
                                        !.requires_new_session = TRUE],
                   <<>>)
        ELSE LET out == CHOOSE o \in {simple_generate_response(sid, msg,
                                          analysis.primary_intent, sess, analysis.entities,
                                          st.conversations[sid] \o <<UserRow>>,
                                          st.customers, dbs1, st.now, st.fault)} : TRUE
             IN  IF out.raised
                 THEN after([st.active_sessions EXCEPT ![sid] = out.sess],
                            out.db_sessions, out.customers,
                            [st.conversations EXCEPT ![sid] = <<UserRow>>],
                            [BaseResponse EXCEPT !.kind = "technical_difficulties",
                                                 !.keys = {"error"}, !.error = TRUE],
                            out.audit \o
                            <<AuditRow(sid, customer_id, "process_message", "failed")>>)
                 ELSE after([st.active_sessions EXCEPT ![sid] = out.sess],
                            out.db_sessions, out.customers,
                            [st.conversations EXCEPT ![sid] =
                                <<UserRow, AssistantRow(out.resp)>>],
                            out.resp,
                            out.audit \o
                            <<AuditRow(sid, out.sess.customer_id, "process_message",
                                       "success")>>)

\* SimpleNANOAgent.process_message
simple_process_message(sid, msg, customer_id) ==
    \E r \in {SimpleProcessMessage(State, sid, msg, customer_id)} :
        /\ call' = [op |-> "simple_process_message", session_id |-> sid, message |-> msg,
                    customer_id |-> customer_id, fault |-> NoFault]
        /\ active_sessions' = r.active_sessions
        /\ db_sessions' = r.db_sessions
        /\ customers' = r.customers
        /\ conversations' = r.conversations
        /\ response' = r.response
        /\ audit' = r.audit
        /\ UNCHANGED <<transactions, now, inflight>>

NextSimple ==
    \/ \E sid \in SessionIds : create_session(sid, None)
    \/ \E sid \in SessionIds, msg \in SimpleMessages : simple_process_message(sid, msg, None)

SpecSimple == Init /\ [][NextSimple]_vars

\* ------------------------------------------------------------------------
\* Two conversations at a time
\* ------------------------------------------------------------------------
TwoSessionMessages ==
    { CredentialsMessage("John", "Doe", "1234567890"),
      CredentialsMessage("Jane", "Smith", "2345678901"),
      <<"verify">>,
      <<"login">> }

NextTwo ==
    \/ \E sid \in SessionIds, c \in {None, "c2"} : create_session(sid, c)
    \/ \E sid \in SessionIds, msg \in TwoSessionMessages, c \in {None} :
           process_message(sid, msg, c)

SpecTwo == Init /\ [][NextTwo]_vars

\* ------------------------------------------------------------------------
\* IdentityVerificationTools.verify_customer_identity called with a security
\* answer by two callers at once.  Each caller has its own ORM session: the
\* query loads the customers row, the checks run on the loaded row and the
\* commit writes the columns the caller assigned.
\* ------------------------------------------------------------------------
SecurityAnswers == {<<"fluffy">>, <<"verify">>, <<"login">>}

\* self.db.query(Customer).filter(...).first()
verify_load(w, c, answer) ==
    /\ inflight[w].pc = "idle"
    /\ inflight' = [inflight EXCEPT ![w] =
                       [pc |-> "loaded", customer |-> c, answer |-> answer,
                        loaded |-> customers[c].login_attempts, outcome |-> "none"]]
    /\ call' = [op |-> "verify_customer_identity", session_id |-> None,
                message |-> answer, customer_id |-> c, fault |-> NoFault]
    /\ UNCHANGED <<transactions, now, active_sessions, db_sessions, customers, conversations,
                   response, audit>>

\* the checks on the loaded row, the assignments and self.db.commit()
verify_commit(w) ==
    LET c == inflight[w].customer
        loaded == inflight[w].loaded
        done(outcome) == [inflight EXCEPT ![w].pc = "done", ![w].outcome = outcome]
    IN  /\ inflight[w].pc = "loaded"
        /\ IF CustomerData[c].account_status # "active"
           THEN inflight' = done("account_not_active") /\ UNCHANGED customers
           ELSE IF loaded >= LoginAttemptLimit
           THEN inflight' = done(TooManyMessage) /\ UNCHANGED customers
           ELSE IF ~verify_security_answer(CustomerData[c].security_answer,
                                           inflight[w].answer)
           THEN /\ inflight' = done("incorrect_answer")
                /\ customers' = [customers EXCEPT ![c].login_attempts = loaded + 1]
           ELSE /\ inflight' = done("verified_welcome")
                /\ customers' = [customers EXCEPT ![c].login_attempts = 0,
                                                  ![c].is_verified = TRUE]
        /\ call' = [op |-> "verify_customer_identity", session_id |-> None,
                    message |-> inflight[w].answer, customer_id |-> c, fault |-> NoFault]
        /\ UNCHANGED <<transactions, now, active_sessions, db_sessions, conversations, response, audit>>

NextRace ==
    \/ \E w \in Callers, c \in CustomerIds, answer \in SecurityAnswers :
           verify_load(w, c, answer)
    \/ \E w \in Callers : verify_commit(w)

SpecRace == Init /\ [][NextRace]_vars


\* ------------------------------------------------------------------------
\* Properties
\* ------------------------------------------------------------------------
\* the verification states of a session: the entry of active_sessions, or
\* the row of the sessions table it would be restored from
SessionExists(sid) == active_sessions[sid].present \/ db_sessions[sid].exists

Verified(sid) ==
    IF active_sessions[sid].present THEN active_sessions[sid].is_verified
    ELSE db_sessions[sid].exists /\ db_sessions[sid].is_verified

AwaitingSecurityAnswer(sid) ==
    /\ active_sessions[sid].present
    /\ active_sessions[sid].awaiting_security_answer
    /\ active_sessions[sid].temp_customer_id # None

Unverified(sid) == ~Verified(sid) /\ ~AwaitingSecurityAnswer(sid)

\* process_message would take the message to _analyze_intent: the session
\* is held or can be restored, and has not timed out
Live(sid) ==
    /\ \/ active_sessions[sid].present
       \/ db_sessions[sid].exists /\ db_sessions[sid].status = "active"
    /\ ~is_session_expired(IF active_sessions[sid].present THEN active_sessions[sid]
                           ELSE RestoredSession(db_sessions[sid]), now)

\* the step is process_message(sid, msg, ...) for the call recorded in call'
Processed(sid, msg) ==
    /\ call'.op = "process_message" /\ call'.session_id = sid /\ call'.message = msg
    /\ process_message(sid, msg, None)

AccountTools == {"query_account_balance", "transaction_history", "update_customer_record"}

ToolsUsed(resp) == {resp.tools_used[i] : i \in 1..Len(resp.tools_used)}

\* the message carries the full name and the account number of customer c
PresentsPair(msg, c) ==
    /\ IsInfix(CustomerData[c].full_name, LowerSeq(msg))
    /\ \E i \in 1..Len(msg) : msg[i] = CustomerData[c].account_number

\* the message is the security answer stored for customer c
CorrectAnswer(msg, c) == LowerSeq(msg) = CustomerData[c].security_answer

\* the customer a session's pending verification attempt is for
Pending(sid) == active_sessions[sid].temp_customer_id

NoPendingData(sess) ==
    /\ ~sess.awaiting_security_answer
    /\ sess.temp_customer_id = None
    /\ sess.temp_name = <<>>
    /\ sess.temp_account = None

SensitiveSet ==
    {"balance_inquiry", "transaction_history", "update_information", "file_management",
     "document_ocr"}

\* C1: a message processed for a session that is not verified never invokes
\* query_account_balance, transaction_history or update_customer_record and
\* returns no account data; when the message reaches intent analysis and its
\* intent is one of the sensitive intents, the response has
\* requires_verification true.
C1_UnverifiedNeverReachesAccountTools ==
    [][\A sid \in SessionIds, msg \in Messages :
          (Processed(sid, msg) /\ ~Verified(sid)) =>
              /\ ToolsUsed(response') \cap AccountTools = {}
              /\ response'.balance = -1
              /\ response'.kind \notin {"balance", "transactions", "updated"}
              /\ (Live(sid) /\ analyze_intent[msg].primary_intent \in SensitiveSet)
                     => (response'.requires_verification
                           /\ "requires_verification" \in response'.keys)]_vars

C1_Witness ==
    /\ call.op = "process_message"
    /\ analyze_intent[call.message].primary_intent = "transaction_history"
    /\ ~Verified(call.session_id)
    /\ SessionExists(call.session_id)
    /\ response.requires_verification
    /\ response.next_intent = "transaction_history"

\* C2: a session becomes verified only by a message that is the stored
\* security answer of the customer its pending attempt is for, processed
\* while that customer's failure counter is below 3; and a pending attempt
\* for a customer is only ever set by a message of the same session that
\* carries that customer's name and account number.  No session is verified
\* initially, so a verified session has been through both steps, in order.
C2_VerifiedOnlyAfterLookupAndAnswer ==
    [][\A sid \in SessionIds :
          /\ \A c \in CustomerIds :
                 (Pending(sid)' = c /\ Pending(sid) # c) =>
                     \E msg \in Messages :
                         /\ Processed(sid, msg)
                         /\ PresentsPair(msg, c)
                         /\ customers[c].login_attempts < LoginAttemptLimit
          /\ (~Verified(sid) /\ Verified(sid)') =>
                 \E msg \in Messages, c \in CustomerIds :
                     /\ Processed(sid, msg)
                     /\ AwaitingSecurityAnswer(sid) /\ Pending(sid) = c
                     /\ CorrectAnswer(msg, c)
                     /\ customers[c].login_attempts < LoginAttemptLimit
                     /\ active_sessions'[sid].customer_id = c
                     /\ db_sessions'[sid].customer_id = c]_vars

C2_Witness ==
    /\ call.op = "process_message"
    /\ CorrectAnswer(call.message, "c2")
    /\ Verified(call.session_id)
    /\ active_sessions[call.session_id].customer_id = "c2"
    /\ response.verified

\* C3: a message that presents a correct name and account number pair to an
\* unverified session puts the session in AWAITING_SECURITY_ANSWER: the
\* security question is returned, the candidate name, account and customer
\* are stored as pending, and the session is not verified by that step.
C3_CorrectPairLeadsToAwaiting ==
    [][\A sid \in SessionIds, msg \in Messages, c \in CustomerIds :
          (/\ Processed(sid, msg)
           /\ Live(sid) /\ Unverified(sid)
           /\ PresentsPair(msg, c)
           /\ CustomerData[c].account_status = "active"
           /\ customers[c].login_attempts < LoginAttemptLimit) =>
              /\ AwaitingSecurityAnswer(sid)'
              /\ Pending(sid)' = c
              /\ active_sessions'[sid].temp_account = CustomerData[c].account_number
              /\ active_sessions'[sid].temp_name # <<>>
              /\ response'.requires_security_question
              /\ ~Verified(sid)']_vars

\* C4: when a session is AWAITING_SECURITY_ANSWER, a message that is the
\* correct security answer verifies the session, binds the matched customer
\* to it and returns verified: true.
C4_CorrectAnswerVerifies ==
    [][\A sid \in SessionIds, msg \in Messages, c \in CustomerIds :
          (/\ Processed(sid, msg)
           /\ Live(sid) /\ AwaitingSecurityAnswer(sid) /\ Pending(sid) = c
           /\ ~Verified(sid)
           /\ CorrectAnswer(msg, c)
           /\ customers[c].login_attempts < LoginAttemptLimit) =>
              /\ Verified(sid)'
              /\ active_sessions'[sid].customer_id = c
              /\ response'.verified]_vars

\* consecutive process_message calls on one session
RECURSIVE Run(_, _, _)
Run(st, sid, msgs) ==
    IF Len(msgs) = 1 THEN ProcessMessage(st, sid, Head(msgs), None)
    ELSE Run(ProcessMessage(st, sid, Head(msgs), None), sid, Tail(msgs))

BalanceRequest == <<"What's", "my", "balance">>

CredentialsOf(c) ==
    IF c = "c1" THEN CredentialsMessage("John", "Doe", "1234567890")
    ELSE CredentialsMessage("Jane", "Smith", "2345678901")

\* C5: for an active customer with no recorded failures, the messages
\* (balance request, "My name is <name> and my account number is <account>",
\* the correct security answer, balance request) sent in a row to one
\* unverified session end with a response that carries the customer's
\* stored balance and has query_account_balance in tools_used.
C5_ScenarioEndsWithBalance ==
    \A sid \in SessionIds, c \in CustomerIds :
        (/\ active_sessions[sid].present /\ Live(sid) /\ Unverified(sid)
         /\ CustomerData[c].account_status = "active"
         /\ customers[c].login_attempts = 0) =>
            \E end \in {Run(State, sid,
                            <<BalanceRequest, CredentialsOf(c),
                              CustomerData[c].security_answer, BalanceRequest>>)} :
                /\ end.response.balance = CustomerData[c].account_balance
                /\ "query_account_balance" \in ToolsUsed(end.response)

\* the messages the agent hands to the identity tool as a security answer
\* that are not the stored answer of customer c
IncorrectAnswers(c) ==
    {m \in Messages : /\ analyze_intent[m].primary_intent = "identity_verification"
                      /\ analyze_intent[m].entities.account_number = None
                      /\ ~CorrectAnswer(m, c)}

\* C6: three incorrect security answers in a row, given to a session that
\* awaits the security answer of a customer with no recorded failures,
\* leave the session UNVERIFIED after the third one, with the pending
\* attempt data cleared and a response that directs the customer to a branch.
C6_ThirdIncorrectAnswerReturnsToUnverified ==
    \A sid \in SessionIds, c \in CustomerIds :
        (/\ Live(sid) /\ AwaitingSecurityAnswer(sid) /\ Pending(sid) = c
         /\ ~Verified(sid)
         /\ customers[c].login_attempts = 0) =>
            \A w1 \in IncorrectAnswers(c), w2 \in IncorrectAnswers(c),
               w3 \in IncorrectAnswers(c) :
                \E end \in {Run(State, sid, <<w1, w2, w3>>)} :
                    /\ ~end.active_sessions[sid].is_verified
                    /\ NoPendingData(end.active_sessions[sid])
                    /\ end.response.kind = TooManyMessage

\* C9: a verified session stays verified for as long as it exists, whatever
\* is called next: a failed, not-found or locked-out verification attempt on
\* it, the end of the agent that held it, or the clock.
C9_VerifiedIsTerminal ==
    [][\A sid \in SessionIds :
          (Verified(sid) /\ SessionExists(sid)') =>
              /\ Verified(sid)'
              /\ db_sessions'[sid].is_verified
              /\ db_sessions'[sid].customer_id = db_sessions[sid].customer_id]_vars

C9_Witness ==
    /\ call.op = "process_message"
    /\ Verified(call.session_id)
    /\ response.verification_failed
    /\ response.kind \in {TooManyMessage, "customer_not_found", "incorrect_answer"}

\* what a verification attempt made with message m in session b gets in
\* state st: the response and the session's verification state
AttemptOutcome(st, b, m) ==
    LET r == ProcessMessage(st, b, m, None)
    IN  [response |-> r.response, session |-> r.active_sessions[b]]

\* message m in session b is part of an attempt for customer c
AttemptFor(b, m, c) ==
    \/ \E i \in 1..Len(m) : m[i] = CustomerData[c].account_number
    \/ AwaitingSecurityAnswer(b) /\ Pending(b) = c

\* C7 as stated: an incorrect security answer given in one session never
\* changes the outcome of a verification attempt (name+account step or
\* security-answer step) made in a different session, the same customer's
\* included.
C7_NoCrossSessionEffect ==
    \A a \in SessionIds, b \in SessionIds :
        (a # b /\ Live(a) /\ AwaitingSecurityAnswer(a) /\ Live(b)) =>
            \A w \in TwoSessionMessages :
                \E after \in {ProcessMessage(State, a, w, None)} :
                    after.response.kind = "incorrect_answer" =>
                        \A m \in TwoSessionMessages :
                            AttemptOutcome(after, b, m) = AttemptOutcome(State, b, m)

\* C7, amended: the pending attempt data is per session, the failure counter
\* is the customer's login_attempts column.  An incorrect security answer
\* given in one session changes no other session's dict and no other
\* customer's counter, and never changes the outcome of an attempt made in a
\* different session for a different customer; it adds one to the counter
\* that every session's attempts for the same customer are checked against.
C7_NoEffectOnOtherCustomersAttempts ==
    \A a \in SessionIds, b \in SessionIds :
        (a # b /\ Live(a) /\ AwaitingSecurityAnswer(a) /\ Live(b)) =>
            \A w \in TwoSessionMessages :
                \E after \in {ProcessMessage(State, a, w, None)} :
                    after.response.kind = "incorrect_answer" =>
                        /\ after.active_sessions[b] = active_sessions[b]
                        /\ \A d \in CustomerIds \ {Pending(a)} :
                               after.customers[d] = customers[d]
                        /\ after.customers[Pending(a)].login_attempts =
                               customers[Pending(a)].login_attempts + 1
                        /\ \A m \in TwoSessionMessages :
                               ~AttemptFor(b, m, Pending(a)) =>
                                   AttemptOutcome(after, b, m) = AttemptOutcome(State, b, m)

C7_Witness ==
    /\ call.op = "process_message"
    /\ response.kind = "incorrect_answer"
    /\ AwaitingSecurityAnswer(call.session_id)
    /\ \E b \in SessionIds \ {call.session_id} :
           /\ Live(b) /\ AwaitingSecurityAnswer(b)
           /\ Pending(b) # Pending(call.session_id)

\* C10: create_session stores a session that is not verified and has no
\* pending verification data, in the agent and in the sessions table,
\* whatever customer_id is passed and whatever the other sessions and the
\* customers table hold.
C10_CreateSessionYieldsUnverified ==
    [][\A sid \in SessionIds :
          (/\ call'.op = "create_session" /\ call'.session_id = sid
           /\ create_session(sid, call'.customer_id)) =>
              /\ active_sessions'[sid].present
              /\ ~active_sessions'[sid].is_verified
              /\ NoPendingData(active_sessions'[sid])
              /\ db_sessions'[sid].exists
              /\ ~db_sessions'[sid].is_verified
              /\ ~Verified(sid)']_vars

C10_Witness ==
    /\ call.op = "create_session"
    /\ call.customer_id = "c2"
    /\ customers["c2"].is_verified
    /\ \E other \in SessionIds \ {call.session_id} :
           Verified(other) /\ active_sessions[other].customer_id = "c2"
    /\ ~Verified(call.session_id)
    /\ NoPendingData(active_sessions[call.session_id])

\* C8: when two callers have each had an incorrect security answer for the
\* same customer evaluated, the customer's failure counter stands two above
\* what the first of them found, and the failures recorded before plus the
\* answers evaluated are at most 3.
C8_NoLostUpdateUnderConcurrency ==
    \A w \in Callers, v \in Callers :
        (/\ w # v
         /\ inflight[w].pc = "done" /\ inflight[v].pc = "done"
         /\ inflight[w].customer = inflight[v].customer
         /\ inflight[w].outcome = "incorrect_answer"
         /\ inflight[v].outcome = "incorrect_answer") =>
            /\ customers[inflight[w].customer].login_attempts =
                   Min(inflight[w].loaded, inflight[v].loaded) + 2
            /\ Min(inflight[w].loaded, inflight[v].loaded) + 2 <= LoginAttemptLimit

\* C11: a verified session that has not timed out and sends a message whose
\* intent is balance_inquiry is never asked to verify: the response has no
\* requires_verification and comes from the balance query.
C11_VerifiedBalanceNeverAsksVerification ==
    [][\A sid \in SessionIds, msg \in Messages :
          (/\ Processed(sid, msg)
           /\ Verified(sid) /\ Live(sid)
           /\ analyze_intent[msg].primary_intent = "balance_inquiry") =>
              /\ ~response'.requires_verification
              /\ response'.kind # "verification_required"
              /\ "query_account_balance" \in ToolsUsed(response')]_vars

C11_Witness ==
    /\ call.op = "process_message"
    /\ call.message = BalanceRequest
    /\ Verified(call.session_id)
    /\ ~active_sessions[call.session_id].awaiting_security_answer
    /\ response.kind = "balance"
    /\ response.balance = CustomerData["c2"].account_balance

\* the message gives a name after "name is" and an account number that no
\* customer has
PresentsUnknownPair(msg) ==
    /\ HasPhrase(msg, <<"name", "is">>)
    /\ analyze_intent[msg].entities.account_number # None
    /\ \A c \in CustomerIds :
           CustomerData[c].account_number # analyze_intent[msg].entities.account_number

\* C12: a name+account pair that matches no customer, sent to an unverified
\* session, yields verified: false with the not-found message; the session
\* stays UNVERIFIED, no pending attempt data is stored and no customer's
\* failure counter changes.
C12_NotFoundYieldsVerifiedFalse ==
    [][\A sid \in SessionIds, msg \in Messages :
          (/\ Processed(sid, msg)
           /\ Live(sid) /\ Unverified(sid)
           /\ PresentsUnknownPair(msg)) =>
              /\ response'.kind = "customer_not_found"
              /\ "verified" \in response'.keys /\ ~response'.verified
              /\ Unverified(sid)'
              /\ NoPendingData(active_sessions'[sid])
              /\ \A c \in CustomerIds :
                     customers'[c].login_attempts = customers[c].login_attempts]_vars

\* the last row of the session's conversation log is an assistant turn that
\* asked for the full name and the account number
AskedForNameAndAccount(sid) ==
    /\ conversations[sid] # <<>>
    /\ conversations[sid][Len(conversations[sid])].role = "assistant"
    /\ conversations[sid][Len(conversations[sid])].asks_name_and_account

\* the message contains an account number or the word "name"
GivesAccountOrName(msg) ==
    \/ analyze_intent[msg].entities.account_number # None
    \/ \E i \in 1..Len(msg) : ContainsName(Lower(msg[i]))

\* C13: when the previous assistant turn asked for the full name and account
\* number and the message contains an account number or the word "name", the
\* message is handled as identity_verification (the identity tool is called
\* for the pair it gives) even when the classifier ranks another intent
\* higher.
C13_ContextOverrideForcesIdentity ==
    \A sid \in SpecSessions, msg \in Messages \cup ContextMessages :
        (/\ Live(sid) /\ ~Verified(sid)
         /\ AskedForNameAndAccount(sid)
         /\ GivesAccountOrName(msg)
         /\ analyze_intent[msg].primary_intent # "identity_verification") =>
            \E after \in {ProcessMessage(State, sid, msg, None)} :
                /\ after.response.kind # "verification_required"
                /\ "verify_customer_identity" \in ToolsUsed(after.response)

\* C14: for an unverified session, a message from which an account number
\* was extracted gets a conversational verification outcome, never the
\* technical-difficulties error response.
C14_AccountNumberNeverTechnicalDifficulties ==
    [][\A sid \in SessionIds, msg \in Messages :
          (/\ Processed(sid, msg)
           /\ Live(sid) /\ ~Verified(sid)
           /\ analyze_intent[msg].entities.account_number # None) =>
              /\ ~response'.error
              /\ response'.kind # "technical_difficulties"]_vars

\* C15: when an unverified session makes a sensitive request and then
\* verifies, the intent it asked for first is still recorded as next_intent
\* (in the session or in the response) at the moment verification succeeds.
C15_NextIntentKeptUntilVerified ==
    \A sid \in SpecSessions, c \in CustomerIds :
        (Live(sid) /\ Unverified(sid)) =>
            \E asked \in {ProcessMessage(State, sid, BalanceRequest, None)} :
            \E end \in {Run(State, sid, <<BalanceRequest, CredentialsOf(c),
                                         CustomerData[c].security_answer>>)} :
                (asked.response.next_intent = "balance_inquiry" /\ end.response.verified) =>
                    \/ end.response.next_intent = "balance_inquiry"
                    \/ "next_intent" \in DOMAIN end.active_sessions[sid]

\* C16: a session expires only through inactivity: a message that arrives
\* no later than the timeout after the session's last activity (its creation
\* or the last message it processed) is never answered with the timed-out /
\* requires_new_session response.
C16_ExpiresOnlyThroughInactivity ==
    [][\A sid \in SessionIds, msg \in Messages :
          (/\ Processed(sid, msg)
           /\ db_sessions[sid].exists /\ db_sessions[sid].status = "active"
           /\ now - db_sessions[sid].last_activity <= session_timeout_minutes) =>
              /\ ~response'.requires_new_session
              /\ response'.kind # "timed_out"]_vars

\* the time the session was created, as the agent knows it
CreatedAt(sid) ==
    IF active_sessions[sid].present THEN active_sessions[sid].created_at
    ELSE db_sessions[sid].created_at

\* the session is older than session_timeout_minutes
TimedOut(sid) == SessionExists(sid) /\ now - CreatedAt(sid) > session_timeout_minutes

\* the agent holds the session or can restore it from an active row
Reachable(sid) ==
    \/ active_sessions[sid].present
    \/ db_sessions[sid].exists /\ db_sessions[sid].status = "active"

\* the step leaves the conversation log, the session's verification state,
\* its pending attempt data, the sessions table and every customer record
\* as they were, and invokes no tool
NotProcessed(sid) ==
    /\ conversations' = conversations
    /\ customers' = customers
    /\ db_sessions' = db_sessions
    /\ Verified(sid)' = Verified(sid)
    /\ AwaitingSecurityAnswer(sid)' = AwaitingSecurityAnswer(sid)
    /\ active_sessions[sid].present => active_sessions'[sid] = active_sessions[sid]
    /\ response'.tools_used = <<>>
    /\ audit' = <<>>

\* C17 as stated: a message to a session older than session_timeout_minutes
\* is answered with requires_new_session and the 'timed out' text, and is not
\* processed.
C17_OldSessionGetsTimedOut ==
    [][\A sid \in SessionIds, msg \in Messages :
          (Processed(sid, msg) /\ TimedOut(sid)) =>
              /\ response'.requires_new_session
              /\ response'.kind = "timed_out"
              /\ NotProcessed(sid)]_vars

\* C17: a message to a session older than session_timeout_minutes is
\* answered with requires_new_session and is not processed; the text is the
\* 'timed out' one while the agent holds the session or can restore it from
\* an active row, and the 'session has expired' one once the row is expired
\* or terminated.
C17_OldSessionRequiresNewSession ==
    [][\A sid \in SessionIds, msg \in Messages :
          (Processed(sid, msg) /\ TimedOut(sid)) =>
              /\ response'.requires_new_session
              /\ response'.kind = (IF Reachable(sid) THEN "timed_out" ELSE "session_expired")
              /\ NotProcessed(sid)]_vars

C17_Witness ==
    /\ call.op = "process_message"
    /\ TimedOut(call.session_id)
    /\ Verified(call.session_id)
    /\ conversations[call.session_id] # <<>>
    /\ response.kind = "timed_out"
    /\ response.requires_new_session

\* C18: through the chat endpoint, after one request presents a valid
\* name+account pair and is answered with requires_security_question, a
\* following request of the same session with the correct security answer is
\* answered with verified: true.
C18_VerificationSurvivesBetweenRequests ==
    \A sid \in SpecSessions, c \in CustomerIds :
        (Live(sid) /\ ~Verified(sid)) =>
            \E first \in {ChatEndpoint(State, sid, CredentialsOf(c), None)} :
                first.response.requires_security_question =>
                    \E second \in {ChatEndpoint(first, sid, CustomerData[c].security_answer,
                                                None)} :
                        second.response.verified

\* the pending attempt data of the session dict
PendingData(sess) ==
    <<sess.awaiting_security_answer, sess.temp_customer_id, sess.temp_name,
      sess.temp_account>>

\* C19: greeting and escalation short-circuit in every verification state:
\* a greeting gets the greeting response, an escalation invokes
\* escalate_to_human, and neither changes the session's verification state,
\* its pending attempt data or a customer record.
C19_GreetingAndEscalationShortCircuit ==
    [][\A sid \in SessionIds, msg \in Messages :
          (/\ Processed(sid, msg) /\ Live(sid)
           /\ analyze_intent[msg].primary_intent \in {"greeting", "escalation"}) =>
              /\ analyze_intent[msg].primary_intent = "greeting" =>
                     response'.kind = "greeting" /\ response'.tools_used = <<>>
              /\ analyze_intent[msg].primary_intent = "escalation" =>
                     /\ response'.kind = "escalated"
                     /\ response'.tools_used = <<"escalate_to_human">>
                     /\ \E i \in 1..Len(audit') : audit'[i].action = "escalate_to_human"
              /\ Verified(sid)' = Verified(sid)
              /\ db_sessions'[sid].is_verified = db_sessions[sid].is_verified
              /\ AwaitingSecurityAnswer(sid)' = AwaitingSecurityAnswer(sid)
              /\ PendingData(active_sessions'[sid]) = PendingData(active_sessions[sid])
              /\ customers' = customers]_vars

C19_Witness ==
    /\ call.op = "process_message"
    /\ analyze_intent[call.message].primary_intent = "escalation"
    /\ AwaitingSecurityAnswer(call.session_id)
    /\ response.kind = "escalated"

\* the responses that are an apology without particulars
GenericApologies ==
    {"technical_difficulties", "verification_unavailable", "balance_unavailable",
     "update_failed"}

\* the store call that was set to fail was made while the request was served
FaultStruck(resp, aud) ==
    \E i \in 1..Len(aud) :
        /\ aud[i].status = "failed"
        /\ aud[i].action \in {"query_account_balance", "transaction_history",
                              "update_customer_record", "identity_verification"}
        /\ call'.fault = (IF aud[i].action = "identity_verification"
                          THEN "verify_customer_identity" ELSE aud[i].action)

\* C20: when a store call fails during a routed operation (balance query,
\* transaction listing, record update, verification lookup), the response is
\* a generic apology that contains none of the fault's text.
C20_StoreFailureGivesGenericApology ==
    [][\A sid \in SessionIds, msg \in Messages, fault \in StoreCalls :
          (/\ process_message_during_fault(sid, msg, fault)
           /\ call'.fault = fault
           /\ FaultStruck(response', audit')) =>
              /\ response'.kind \in GenericApologies
              /\ ~response'.fault_text]_vars


\* C21: every message processed on an active, unexpired session leaves the
\* user turn followed by the assistant turn that was returned at the end of
\* the session's conversation log; the log never ends with a user turn that
\* has no assistant turn.
C21_UserTurnAlwaysAnswered ==
    [][\A sid \in SessionIds, msg \in Messages :
          (Processed(sid, msg) /\ Live(sid)) =>
              /\ Len(conversations'[sid]) >= 2
              /\ conversations'[sid][Len(conversations'[sid]) - 1] = UserRow
              /\ conversations'[sid][Len(conversations'[sid])] = AssistantRow(response')]_vars


\* the verification state of a session
VerificationState(sid) ==
    IF Verified(sid) THEN "verified"
    ELSE IF AwaitingSecurityAnswer(sid) THEN "awaiting" ELSE "unverified"

\* C22: every verification state transition, also the one from UNVERIFIED to
\* AWAITING_SECURITY_ANSWER when the security question is emitted, adds an
\* audit row for the session that carries the id of the matched customer.
C22_EveryTransitionAudited ==
    [][\A sid \in SessionIds, msg \in Messages :
          (/\ Processed(sid, msg) /\ Live(sid)
           /\ VerificationState(sid)' # VerificationState(sid)) =>
              \E i \in 1..Len(audit') :
                  /\ audit'[i].session_id = sid
                  /\ audit'[i].status \in {"success", "failed"}
                  /\ audit'[i].customer_id =
                         (IF VerificationState(sid)' = "awaiting" THEN Pending(sid)'
                          ELSE IF VerificationState(sid)' = "verified"
                          THEN active_sessions'[sid].customer_id
                          ELSE Pending(sid))]_vars


\* the order in which the specification declares the categories
DeclarationOrder ==
    [c \in {"greeting", "identity_verification", "balance_inquiry", "transaction_history",
            "update_information", "file_management", "document_ocr", "general_support",
            "escalation"} |->
        CASE c = "greeting" -> 1
          [] c = "identity_verification" -> 2
          [] c = "balance_inquiry" -> 3
          [] c = "transaction_history" -> 4
          [] c = "update_information" -> 5
          [] c = "file_management" -> 6
          [] c = "document_ocr" -> 7
          [] c = "general_support" -> 8
          [] c = "escalation" -> 9]

\* the order in which _analyze_intent tests the categories: greeting last
\* (document_ocr and file_management never occur together)
TestOrder ==
    [c \in DOMAIN DeclarationOrder |->
        IF c = "greeting" THEN 10 ELSE DeclarationOrder[c]]

\* the ranking is by descending score, entries of equal score in order `ord`
RankedBy(l, ord) ==
    \A i, j \in 1..Len(l) :
        i < j => \/ l[i][2] > l[j][2]
                 \/ l[i][2] = l[j][2] /\ ord[l[i][1]] <= ord[l[j][1]]

Classified == call.op = "_analyze_intent"

\* C23 as stated: the ranking is by descending score, equal scores in the
\* category declaration order (greeting first), and the top intent is its
\* first entry.
C23_TiesInDeclarationOrder ==
    Classified =>
        /\ RankedBy(response.all_intents, DeclarationOrder)
        /\ response.all_intents # <<>> =>
               response.next_intent = response.all_intents[1][1]

\* C23: the ranking is by descending score, equal scores in the order in
\* which the classifier tests the categories (identity_verification,
\* balance_inquiry, transaction_history, update_information, document_ocr or
\* file_management, general_support, escalation, greeting), and the top
\* intent is its first entry (general_inquiry if the ranking is empty).
C23_TiesInTestOrder ==
    Classified =>
        /\ RankedBy(response.all_intents, TestOrder)
        /\ response.next_intent =
               (IF response.all_intents # <<>> THEN response.all_intents[1][1]
                ELSE "general_inquiry")

C23_Witness ==
    /\ Classified
    /\ Len(response.all_intents) >= 2
    /\ response.all_intents[1] = <<"balance_inquiry", 800>>
    /\ response.all_intents[2] = <<"greeting", 800>>
    /\ response.next_intent = "balance_inquiry"


\* the first run of six or more consecutive digits of a word, None if the
\* word has none
SixDigitsIn(w) ==
    CASE w \in {"1234567890", "2345678901", "9999999999"} -> w
      [] w = "AC2345678901" -> "2345678901"
      [] OTHER -> None

\* the same, for runs that have no letter, digit or underscore next to them
DelimitedSixDigitsIn(w) ==
    IF w \in {"1234567890", "2345678901", "9999999999"} THEN w ELSE None

\* the first word of msg for which `runs` (a function on the words of msg)
\* gives a run, as that run
FirstRun(msg, runs) ==
    IF \E i \in 1..Len(msg) : runs[msg[i]] # None
    THEN runs[msg[CHOOSE i \in 1..Len(msg) :
                      runs[msg[i]] # None /\ \A j \in 1..(i - 1) : runs[msg[j]] = None]]
    ELSE None

\* C24 as stated: for every message that contains a run of six or more
\* consecutive digits, account_number is the first such run of the message.
C24_FirstDigitRunExtracted ==
    (Classified /\ \E i \in 1..Len(call.message) : SixDigitsIn(call.message[i]) # None) =>
        response.account_number =
            FirstRun(call.message, [w \in WordsOf(call.message) |-> SixDigitsIn(w)])

\* C24: account_number is the first run of six or more digits that has no
\* letter, digit or underscore directly before or after it; a message with
\* no such run has no account_number, whatever digits its words contain.
C24_FirstDelimitedDigitRunExtracted ==
    Classified =>
        response.account_number =
            FirstRun(call.message, [w \in WordsOf(call.message) |-> DelimitedSixDigitsIn(w)])

C24_Witness ==
    /\ Classified
    /\ call.message = <<"AC2345678901", "balance", "1234567890">>
    /\ response.account_number = "1234567890"


\* C25: create_transaction with type debit and an amount greater than the
\* customer's current balance fails with the 'Insufficient funds' result and
\* leaves the balance and the transactions table unchanged.
C25_OverdrawingDebitRejected ==
    [][\A cid \in CustomerIds, amount \in Amounts :
          (/\ create_transaction("s1", cid, amount, "debit")
           /\ amount > customers[cid].account_balance) =>
              /\ response'.kind = "insufficient_funds"
              /\ customers'[cid].account_balance = customers[cid].account_balance
              /\ customers' = customers
              /\ transactions' = transactions]_vars

C25_Witness ==
    /\ call.op = "create_transaction"
    /\ response.kind = "insufficient_funds"
    /\ transactions # <<>>
    /\ \E c \in CustomerIds :
           /\ call.customer_id = c
           /\ customers[c].account_balance # CustomerData[c].account_balance
           /\ customers[c].account_balance < 3000


\* C26: lockout is permanent: once a customer's failure counter has reached
\* the limit of 3 it stays there, and no call of the identity tool for that
\* customer returns the verified result any more.
C26_LockoutIsPermanent ==
    [][\A c \in CustomerIds :
          customers[c].login_attempts >= LoginAttemptLimit =>
              /\ customers'[c].login_attempts >= LoginAttemptLimit
              /\ \A w \in Callers :
                     (/\ inflight'[w].customer = c
                      /\ inflight'[w].outcome = "verified_welcome") =>
                         inflight[w].outcome = "verified_welcome"]_vars


\* the verification state of a session dict and the verification flags of a
\* response
VerificationStateOf(sess) ==
    IF sess.is_verified THEN "verified"
    ELSE IF sess.awaiting_security_answer THEN "awaiting_security_answer"
    ELSE "unverified"

VerificationFlags(resp) ==
    <<resp.verified, resp.requires_security_question, resp.requires_verification>>

Fresh(sid) ==
    /\ active_sessions[sid] = NewSession(None, active_sessions[sid].created_at)
    /\ db_sessions[sid].exists /\ db_sessions[sid].status = "active"
    /\ ~db_sessions[sid].is_verified
    /\ conversations[sid] = <<>>
    /\ ~is_session_expired(active_sessions[sid], now)

\* C27: SimpleNANOAgent is equivalent to NANOAgent on verification: for
\* every sequence of (one or two) messages on a fresh session both agents
\* leave the session in the same verification state after each message and
\* return the same verified / requires_security_question /
\* requires_verification flags.
C27_SimpleAgentEquivalentOnVerification ==
    \A sid \in SessionIds :
        Fresh(sid) =>
            \A m1 \in SimpleMessages :
                \E full1 \in {ProcessMessage(State, sid, m1, None)},
                   simple1 \in {SimpleProcessMessage(State, sid, m1, None)} :
                    /\ VerificationFlags(full1.response) = VerificationFlags(simple1.response)
                    /\ VerificationStateOf(full1.active_sessions[sid])
                           = VerificationStateOf(simple1.active_sessions[sid])
                    /\ \A m2 \in SimpleMessages :
                           \E full2 \in {ProcessMessage(full1, sid, m2, None)},
                              simple2 \in {SimpleProcessMessage(simple1, sid, m2, None)} :
                               /\ VerificationFlags(full2.response)
                                      = VerificationFlags(simple2.response)
                               /\ VerificationStateOf(full2.active_sessions[sid])
                                      = VerificationStateOf(simple2.active_sessions[sid])


\* C28: once the stored status of a session is terminated or expired it is
\* never active again, and every later process_message for that session id
\* returns requires_new_session, calls no tool and leaves the verification
\* state alone, also on an agent that still holds the session in
\* active_sessions.
C28_EndedSessionStaysEnded ==
    [][\A sid \in SessionIds :
          (db_sessions[sid].exists /\ db_sessions[sid].status \in {"terminated", "expired"}) =>
              /\ db_sessions'[sid].status # "active"
              /\ (call'.op = "process_message" /\ call'.session_id = sid) =>
                     /\ response'.requires_new_session
                     /\ response'.tools_used = <<>>
                     /\ active_sessions'[sid].is_verified = active_sessions[sid].is_verified
                     /\ active_sessions'[sid].awaiting_security_answer
                            = active_sessions[sid].awaiting_security_answer
                     /\ db_sessions'[sid].is_verified = db_sessions[sid].is_verified]_vars


\* the entry of active_sessions and the row of the sessions table say the
\* same about who the session belongs to
DictAndRowAgree(sid) ==
    /\ active_sessions[sid].is_verified = db_sessions[sid].is_verified
    /\ active_sessions[sid].customer_id = db_sessions[sid].customer_id

\* the step is a process_message call of session sid that matched the
\* security answer of customer c
AnswerMatchedIn(sid, c) ==
    /\ call'.op = "process_message" /\ call'.session_id = sid
    /\ response'.verified /\ response'.customer_id = c
    /\ c \in CustomerIds
    /\ LowerSeq(call'.message) = LowerSeq(CustomerData[c].security_answer)

\* C29: after every completed create_session or process_message call the
\* entry of active_sessions and the row of the sessions table agree on
\* is_verified and customer_id, and a session is verified for customer c only
\* from a call of that session that matched c's security answer on: no other
\* step makes the dict or the row verified or changes the customer_id of a
\* verified one (a restored dict takes both from the row).
C29_DictAndRowAgreeOnVerification ==
    /\ [](\A sid \in SessionIds :
             (active_sessions[sid].present /\ db_sessions[sid].exists) => DictAndRowAgree(sid))
    /\ [][\A sid \in SessionIds :
             /\ (/\ db_sessions'[sid].is_verified
                 /\ \/ ~db_sessions[sid].is_verified
                    \/ db_sessions'[sid].customer_id # db_sessions[sid].customer_id) =>
                    AnswerMatchedIn(sid, db_sessions'[sid].customer_id)
             /\ (/\ active_sessions'[sid].is_verified
                 /\ \/ ~active_sessions[sid].is_verified
                    \/ active_sessions'[sid].customer_id # active_sessions[sid].customer_id) =>
                    \/ AnswerMatchedIn(sid, active_sessions'[sid].customer_id)
                    \/ /\ ~active_sessions[sid].present
                       /\ db_sessions[sid].is_verified
                       /\ db_sessions[sid].customer_id = active_sessions'[sid].customer_id]_vars

C29_Witness ==
    /\ call.op = "process_message" /\ call.session_id = "s1"
    /\ response.kind = "verified_welcome"
    /\ active_sessions["s1"].is_verified /\ db_sessions["s1"].is_verified
    /\ active_sessions["s1"].customer_id = "c2" /\ db_sessions["s1"].customer_id = "c2"
    /\ DictAndRowAgree("s1")


\* the session dict a call of process_message works on: the entry of
\* active_sessions, or the one it restores from the sessions row
EffectiveSession(sid) ==
    IF active_sessions[sid].present THEN active_sessions[sid]
    ELSE RestoredSession(db_sessions[sid])

VerificationData(sess) ==
    <<sess.is_verified, sess.customer_id, sess.awaiting_security_answer,
      sess.temp_name, sess.temp_account, sess.temp_customer_id>>

\* C30: whenever process_message returns the technical-difficulties response
\* (error: true), the session's verification state (is_verified, customer_id,
\* awaiting flag, pending name, account and customer), the row's is_verified
\* and customer_id, and every customer's failure counter are as they were
\* before the call.
C30_ErrorResponseLeavesVerificationAlone ==
    [][\A sid \in SessionIds :
          (call'.op = "process_message" /\ call'.session_id = sid /\ response'.error) =>
              /\ VerificationData(EffectiveSession(sid))' = VerificationData(EffectiveSession(sid))
              /\ db_sessions'[sid].is_verified = db_sessions[sid].is_verified
              /\ db_sessions'[sid].customer_id = db_sessions[sid].customer_id
              /\ \A c \in CustomerIds :
                     customers'[c].login_attempts = customers[c].login_attempts]_vars

C30_Witness ==
    /\ call.op = "process_message" /\ call.session_id = "s1"
    /\ response.error /\ response.kind = "technical_difficulties"
    /\ active_sessions["s1"].awaiting_security_answer
    /\ active_sessions["s1"].temp_customer_id = "c2"
    /\ customers["c2"].login_attempts = 2

====
